---------------------------- MODULE Spec2Model ----------------------------
(***************************************************************************)
(* Streaming response translation and tool orchestration of the chat       *)
(* backend: generate_chat_openrouter (backend/services/openrouter.py) with *)
(* the storing of conversations by chat_completion (backend/routers/       *)
(* chat.py), specification Spec; and the emulator's proxy of chat          *)
(* completions (docker/emulator/emulator_app.py), specification EmuSpec.   *)
(*                                                                         *)
(* Text is a sequence of tokens.  Each token stands for a fixed piece of   *)
(* text: "OPEN" is the literal <think>, "CLOSE" is </think>, "NL" is one    *)
(* whitespace character, "c" is a one-character word, "LONG" is a ten       *)
(* character word.  String concatenation is \o, the empty string is <<>>.  *)
(***************************************************************************)
EXTENDS Integers, Sequences, FiniteSets, TLC

\* ------------------------------------------------------------------ bounds
\* number of lines the upstream sends in the first (or retried) stream
MaxLines == 3
\* number of lines the upstream sends in the follow-up stream
MaxLines2 == 2
\* number of requests the client makes on one conversation
MaxTurns == 2
\* number of requests the emulator serves
MaxRequests == 2
\* number of lines the inference server sends in one response
MaxVllmLines == 2
\* the latest second the emulator's clock reaches
MaxTime == 1
\* number of tasks that ask for the emulator's model
MaxTasks == 3
\* number of provider switches
MaxSwitches == 2
\* number of chat requests served concurrently
MaxWorkers == 2

\* ------------------------------------------------------------- text model
\* len(think_inner) < 10 (openrouter.py:323)
MinThinkLen == 10

\* number of characters of each token
TokLen(tok) ==
    CASE tok = "OPEN"  -> 7
      [] tok = "CLOSE" -> 8
      [] tok = "LONG"  -> 10
      [] OTHER         -> 1

RECURSIVE CharLen(_)
\* len(s)
CharLen(t) == IF t = <<>> THEN 0 ELSE TokLen(Head(t)) + CharLen(Tail(t))

\* "<think>" in s  /  "</think>" in s
Contains(t, tok) == \E i \in 1..Len(t) : t[i] = tok

IsSpace(tok) == tok = "NL"

RECURSIVE LStrip(_)
LStrip(t) == IF t # <<>> /\ IsSpace(Head(t)) THEN LStrip(Tail(t)) ELSE t

RECURSIVE RStrip(_)
RStrip(t) ==
    IF t # <<>> /\ IsSpace(t[Len(t)]) THEN RStrip(SubSeq(t, 1, Len(t) - 1)) ELSE t

\* s.strip()
Strip(t) == RStrip(LStrip(t))

\* re.sub(r'</?think>', '', s)
StripTags(t) == SelectSeq(t, LAMBDA tok : tok \notin {"OPEN", "CLOSE"})

\* positions of the leftmost match of <think>([\s\S]*?)</think>: the first
\* opening tag and the first closing tag after it
FirstOpen(t) == CHOOSE i \in 1..Len(t) : t[i] = "OPEN" /\ \A k \in 1..(i-1) : t[k] # "OPEN"

HasThinkMatch(t) ==
    /\ Contains(t, "OPEN")
    /\ \E j \in (FirstOpen(t)+1)..Len(t) : t[j] = "CLOSE"

FirstCloseAfter(t, i) ==
    CHOOSE j \in (i+1)..Len(t) : t[j] = "CLOSE" /\ \A k \in (i+1)..(j-1) : t[k] # "CLOSE"

\* think_match.group(1).strip() if think_match else ""
ThinkInner(t) ==
    IF HasThinkMatch(t)
    THEN Strip(SubSeq(t, FirstOpen(t) + 1, FirstCloseAfter(t, FirstOpen(t)) - 1))
    ELSE <<>>

\* f"<think>\n{s}\n</think>\n\n{s}"
Wrap(t) == <<"OPEN", "NL">> \o t \o <<"NL", "CLOSE", "NL", "NL">> \o t

\* f"<think>\n{reasoning}"
OpenPrefix == <<"OPEN", "NL">>
\* f"\n</think>\n\n{content}"
ClosePrefix == <<"NL", "CLOSE", "NL", "NL">>

\* Python None / JSON null as a message content
None == <<"None">>


\* ------------------------------------------------------ upstream SSE lines
\* One line of an upstream response as aiter_lines() yields it.  kind:
\*   "blank"     empty line
\*   "comment"   a line that does not start with "data: "
\*   "done"      the sentinel data: [DONE]
\*   "badjson"   data: followed by text that is not JSON
\*   "nochoices" JSON object without (or with empty) choices
\*   "badshape"  JSON of an unexpected shape (delta is null)
\*   "delta"     JSON object with choices[0].delta
\* For a delta: tc says that delta.tool_calls is a non-empty array, tcid,
\* hasfn, name and args describe tool_calls[0] (id, presence of function,
\* function.name, function.arguments); content, reasoning, thought and
\* reasoning_content are the text fields of the delta (<<>>: empty or absent).
Line(kind, tc, tcid, hasfn, name, args, content, reasoning, thought, rc) ==
    [kind |-> kind, tc |-> tc, tcid |-> tcid, hasfn |-> hasfn, name |-> name,
     args |-> args, content |-> content, reasoning |-> reasoning,
     thought |-> thought, reasoning_content |-> rc]

Other(kind) == Line(kind, FALSE, <<>>, FALSE, <<>>, <<>>, <<>>, <<>>, <<>>, <<>>)
ContentDelta(c) == Line("delta", FALSE, <<>>, FALSE, <<>>, <<>>, c, <<>>, <<>>, <<>>)
ReasoningDelta(r, c) == Line("delta", FALSE, <<>>, FALSE, <<>>, <<>>, c, r, <<>>, <<>>)
ThoughtDelta(t) == Line("delta", FALSE, <<>>, FALSE, <<>>, <<>>, <<>>, <<>>, t, <<>>)
ReasoningContentDelta(r) == Line("delta", FALSE, <<>>, FALSE, <<>>, <<>>, <<>>, <<>>, <<>>, r)
ToolDelta(tcid, name, args, c) == Line("delta", TRUE, tcid, TRUE, name, args, c, <<>>, <<>>, <<>>)
ToolDeltaNoFn(tcid, c) == Line("delta", TRUE, tcid, FALSE, <<>>, <<>>, c, <<>>, <<>>, <<>>)

\* the tool name "web_search", as the pieces it may arrive in
WebSearch == <<"web_", "search">>
\* the argument document {"query": "x"}, as the pieces it may arrive in
ArgsDoc == <<"{q:", "x}">>

\* first-stream lines without tool calls: every kind of line, and deltas
\* with every kind of text
TextLines ==
    { Other("blank"), Other("comment"), Other("done"), Other("badjson"),
      Other("nochoices"), Other("badshape") }
    \cup { ContentDelta(c) : c \in { <<>>, <<"c">>, <<"LONG">>, <<"OPEN">>, <<"CLOSE">>, <<"NL">> } }
    \cup { ReasoningDelta(<<"c">>, <<>>), ReasoningDelta(<<"LONG">>, <<>>),
           ReasoningDelta(<<"LONG">>, <<"c">>), ThoughtDelta(<<"c">>),
           ReasoningContentDelta(<<"c">>) }

\* first-stream lines around tool calls: whole and partial tool-call
\* fragments, with text before, after and inside them
ToolLines ==
    { Other("done"), Other("badshape"), ContentDelta(<<"c">>),
      ReasoningDelta(<<"c">>, <<>>),
      ToolDelta(<<"id1">>, WebSearch, ArgsDoc, <<>>),
      ToolDelta(<<"id1">>, <<"web_">>, <<"{q:">>, <<>>),
      ToolDelta(<<>>, <<"search">>, <<"x}">>, <<"c">>),
      ToolDelta(<<"id2">>, <<"other">>, <<"junk">>, <<>>),
      ToolDelta(<<"id1">>, WebSearch, <<"junk">>, <<>>),
      ToolDeltaNoFn(<<>>, <<"c">>) }

\* lines the upstream may send in the follow-up stream
SecondLines ==
    { Other("blank"), Other("done"), Other("badshape"),
      ContentDelta(<<>>), ContentDelta(<<"c">>), ContentDelta(<<"LONG">>),
      ReasoningDelta(<<"c">>, <<>>),
      ToolDelta(<<"id1">>, WebSearch, ArgsDoc, <<"c">>),
      ToolDelta(<<"id1">>, WebSearch, ArgsDoc, <<>>) }

\* a short alphabet of the first stream
FewFirstLines ==
    { Other("done"), ContentDelta(<<"LONG">>),
      ToolDelta(<<"id1">>, WebSearch, ArgsDoc, <<>>) }

\* a short alphabet of the follow-up stream
FewSecondLines == { Other("done"), ContentDelta(<<"c">>) }

\* first-stream lines of the turns of a conversation: text, or a call of a
\* tool that is not offered
ConvFirstLines ==
    { ContentDelta(<<"c">>), ToolDelta(<<"id2">>, <<"other">>, <<"junk">>, <<>>) }

\* lines the upstream may send in the first stream
FirstLines == TextLines \cup ToolLines \cup FewFirstLines \cup ConvFirstLines

\* json.loads(tool_call_buffer["arguments"]) succeeds
ArgsAreJson(args) == args = ArgsDoc

\* json.loads(tool_call_buffer["arguments"]).get("query", ""), "" when the
\* buffer is not a JSON document
ParseQuery(args) == IF ArgsAreJson(args) THEN <<"x">> ELSE <<>>

\* the search is announced by blank lines only
SearchMsg_Silent(q) == <<"NL", "NL">>

\* f"\n\n> Searching the Web: `{search_query}`...\n\n"
SearchMsg(q) == <<"NL", "NL", "MARK">> \o q \o <<"NL", "NL">>

\* -------------------------------------------------------------- messages
Msg(role, content) ==
    [role |-> role, content |-> content, tool_calls |-> <<>>, tool_call_id |-> <<>>]

\* message lists a request may carry
RequestMessages ==
    { << Msg("user", <<"u">>) >>,
      << Msg("system", <<"s">>), Msg("user", <<"u">>) >>,
      << Msg("user", <<"u">>), Msg("assistant", <<"a">>) >> }

Modes == {"auto", "fast", "thinking", "pro"}
ModelIds == {"openai/gpt-4o-mini", "deepseek/deepseek-r1"}

\* any(x in m_id_low for x in ["deepseek-r1", "openai/o1", "openai/o3", "reasoning"])
IsNativeReasoning(m) == m = "deepseek/deepseek-r1"

\* ----------------------------------------------------------- mode policy
\* every mode gets the temperature of auto
Temperature_Default(m) == 5

\* temperature in tenths
Temperature(m) ==
    CASE m = "fast" -> 7
      [] m = "thinking" -> 3
      [] OTHER -> 5

\* max_tokens, 0 when the key is not set
MaxTokens(m) == IF m = "fast" THEN 512 ELSE 0

\* text of the mode's system instruction
ModeText(m, native) ==
    CASE m = "fast" -> <<"I_FAST">>
      [] m = "thinking" /\ native -> <<"I_NATIVE">>
      [] m = "thinking" /\ ~native -> <<"I_THINK_TAGS">>
      [] m = "auto" -> <<"I_AUTO_TAGS">>
      [] OTHER -> <<"I_PRO">>

OfflineText == <<"I_OFFLINE">>

\* content of system_instruction after lines 166-197
SystemInstruction(m, native, offline) ==
    IF offline THEN ModeText(m, native) \o <<"NL">> \o OfflineText
    ELSE ModeText(m, native)

\* the instruction is always inserted as a new leading message
MergeInstruction_AlwaysInserts(msgs, text) == << Msg("system", text) >> \o msgs

\* lines 199-203: merge into an existing leading system message or insert
MergeInstruction(msgs, text) ==
    IF msgs # <<>> /\ msgs[1].role = "system"
    THEN [msgs EXCEPT ![1].content = @ \o <<"NL">> \o text]
    ELSE << Msg("system", text) >> \o msgs

\* " [System Notice: This model does not support tool use. ...]"
ToolFailMsg == <<"NOTICE">>


\* ------------------------------------------------------------------ state
VARIABLES
    request,          \* the ChatRequest: [mode, model, messages]
    offline_mode,     \* argument offline_mode
    internal,         \* settings.is_internal_llm()
    db,               \* the stored conversation: [messages]
    messages,         \* local list messages (the same object as payload["messages"])
    payload,          \* the other keys of payload: [tools, temperature, max_tokens]
    attempt,          \* local attempt
    retry_needed,     \* local retry_needed
    full_response,    \* local full_response
    tool_call_buffer, \* local tool_call_buffer: [name, arguments, id]
    is_calling_tool,  \* local is_calling_tool
    search_query,     \* local search_query
    out,              \* what the generator has yielded so far
    calls,            \* the upstream requests made so far (payload snapshots)
    pc,               \* position of the generator
    outcome,          \* how the generator ended
    nread,            \* lines read from the upstream response that is open
    upstream,         \* what is explored: the lines the upstream may send
                      \* (first, second) and the requests the client makes (turns)
    up,               \* record of what the first stream carried
    actual_model,     \* local actual_model
    turn,             \* number of requests received on the conversation
    ereq,             \* emulator: the requests to POST /api/v1/chat/completions
    uuids,            \* emulator: number of UUIDs uuid.uuid4() has generated
    now,              \* emulator: int(time.time())
    vllm,             \* emulator: what is explored: the lines the inference
                      \* server may send (lines), the number of requests
                      \* made (requests) and their bodies (bodies)
    llm_base_url,     \* settings._llm_base_url
    emulator_model_cache, \* global _emulator_model_cache
    resolve_lock,     \* global _resolve_lock: [locked, waiters]
    task,             \* the tasks that need the model id: [pc, started,
                      \* url_read, waited, result]
    switches,         \* number of completed PUT /settings/llm-provider
    discovery,        \* GET /models since the cache was last invalidated:
                      \* [gets, failed]
    conversations,    \* the table conversations: id -> [exists, title, messages]
    worker,           \* the handlers of POST /chat: [pc, request, conv_id,
                      \* read, generator]
    title_task,       \* the generate_title_task a handler started: [pc,
                      \* conv_id, read, raced]
    title_log,        \* per conversation: title tasks started, titles written
    ever_stored,      \* per conversation: every message ever stored in it
    clients           \* what is explored: the requests made and their number

\* the state of the chat backend
chatvars == << request, offline_mode, internal, db, messages, payload, attempt,
               retry_needed, full_response, tool_call_buffer, is_calling_tool,
               search_query, out, calls, pc, outcome, nread, upstream, up,
               actual_model, turn >>

\* the state of the emulator
emuvars == << ereq, uuids, now, vllm >>

\* the state of the model resolution
resvars == << llm_base_url, emulator_model_cache, resolve_lock, task, switches,
             discovery >>

\* the state of the conversation store and of the handlers that use it
storevars == << conversations, worker, title_task, title_log, ever_stored, clients >>

\* the state of the core outside one turn's generator
corevars == << resvars, storevars >>

vars == << chatvars, emuvars, corevars >>

\* Outward events.  content is choices[0].delta.content, tool_calls says
\* that the event carries a delta.tool_calls array, pass is the upstream
\* stream (1 or 2) during which the event was yielded (0: between streams).
\* an upstream chunk forwarded verbatim (yield chunk + "\n\n")
RawChunk(line, pass) ==
    [kind |-> "raw", content |-> line.content, tool_calls |-> line.tc, pass |-> pass]
\* a copy of the upstream chunk with delta.content replaced (json.dumps(to_yield))
CopyChunk(line, content) ==
    [kind |-> "copy", content |-> content, tool_calls |-> line.tc, pass |-> 1]
\* a chunk built by the generator: {"choices": [{"delta": {"content": ...}}]}
OwnChunk(content) ==
    [kind |-> "own", content |-> content, tool_calls |-> FALSE, pass |-> 0]
\* {"error": ...}
ErrorEvent(msg) ==
    [kind |-> "error", content |-> <<msg>>, tool_calls |-> FALSE, pass |-> 0]

\* the request sent by client.stream("POST", url, json=payload), with the
\* answer it got
Snapshot(kind, resp) ==
    [kind |-> kind, resp |-> resp, tools |-> payload.tools, messages |-> messages,
     model |-> actual_model, temperature |-> payload.temperature, max_tokens |-> payload.max_tokens]

\* what an upstream request may be answered with: "ok" (200), "err_tool"
\* (non-200, body mentions tool), "err_other" (non-200, body does not),
\* "exc" (transport exception)
Responses == {"ok", "err_tool", "err_other", "exc"}

\* line 223: the failure is answered by a retry without tools
ShouldRetry(p, resp) == p.tools /\ resp = "err_tool"

\* the payload keeps its tools key
PopTools_Keeps(p) == p

\* lines 224 and 412: payload.pop("tools", None)
PopTools(p) == [p EXCEPT !.tools = FALSE]

\* lines 205-207 and 211-212: the locals of the generator before its first step
FreshLocals ==
    [messages |-> <<>>,
     payload |-> [tools |-> FALSE, temperature |-> 0, max_tokens |-> 0],
     tool_call_buffer |-> [name |-> <<>>, arguments |-> <<>>, id |-> <<>>],
     up |-> [only_content |-> TRUE, ended |-> FALSE, named_web_search |-> FALSE,
             sent |-> <<>>]]

\* the request and settings of the first turn, with the upstream lines and
\* the number of turns explored for it
InitWith(reqs, internals, lines1, lines2, turns) ==
    /\ request \in reqs
    /\ offline_mode \in BOOLEAN
    /\ internal \in internals
    /\ upstream = [first |-> lines1, second |-> lines2, turns |-> turns]
    /\ actual_model = request.model
    /\ turn = 1
    /\ db = [messages |-> request.messages]
    /\ messages = FreshLocals.messages
    /\ payload = FreshLocals.payload
    /\ attempt = 0
    /\ retry_needed = FALSE
    /\ full_response = <<>>
    /\ tool_call_buffer = FreshLocals.tool_call_buffer
    /\ is_calling_tool = FALSE
    /\ search_query = <<>>
    /\ out = <<>>
    /\ calls = <<>>
    /\ pc = "start"
    /\ outcome = "running"
    /\ nread = 0
    /\ up = FreshLocals.up

\* requests that differ in what the stream handling looks at: thinking mode
\* or not (and, by offline_mode, tools offered or not)
StreamRequests ==
    [mode : {"thinking", "auto"}, model : {"openai/gpt-4o-mini"},
     messages : { << Msg("user", <<"u">>) >> }]

\* the requests the emulator serves
Requests == 1..MaxRequests

\* a request the emulator has not received yet.  pc is the position of its
\* handler, conn what the inference server answers it with, header_id the
\* X-Request-Id header, status the HTTP status sent (0: none yet), body the
\* events or the JSON document sent, nread the lines read from the server.
\* request_body is the JSON object received, vllm_payload the one sent on.
IdleRequest ==
    [pc |-> "idle", stream |-> FALSE, model |-> "", conn |-> "none",
     header_id |-> 0, generation_id |-> 0, created |-> 0, status |-> 0,
     body |-> <<>>, nread |-> 0, request_body |-> <<>>, vllm_payload |-> <<>>]

\* the emulator before its first request, with the lines of the inference
\* server, the number of requests and the request bodies explored for it
EmuInitWith(lines, requests, bodies) ==
    /\ ereq = [r \in Requests |-> IdleRequest]
    /\ uuids = 0
    /\ now = 0
    /\ vllm = [lines |-> lines, requests |-> requests, bodies |-> bodies]

\* the emulator at rest
EmuRest == EmuInitWith({}, 0, {})

\* the requests of the turns of a conversation
ConvRequests ==
    [mode : {"auto"}, model : {"openai/gpt-4o-mini"},
     messages : { << Msg("user", <<"u">>) >> }]

\* Every request and setting against a short upstream alphabet, the stream
\* requests against the text lines and against the tool-call lines, and
\* several turns on one conversation.
ChatInit ==
    \/ InitWith([mode : Modes, model : ModelIds, messages : RequestMessages],
                BOOLEAN, FewFirstLines, FewSecondLines, 1)
    \/ InitWith(StreamRequests, {FALSE}, TextLines, SecondLines, 1)
    \/ InitWith(StreamRequests, {FALSE}, ToolLines, SecondLines, 1)
    \/ InitWith(ConvRequests, {FALSE}, ConvFirstLines, FewSecondLines, MaxTurns)

\* the tasks that need the model id
Tasks == 1..MaxTasks

\* settings.py lines 6, 10-13: the two endpoints
OpenRouterUrl == "https://openrouter.ai/api/v1"
EmulatorUrl == "http://emulator:8000/api/v1"

\* a task that has not started.  pc is its position, started the number of
\* provider switches completed when it started, url_read that number when
\* it read the URL of its discovery request (line 27), waited whether it had
\* to wait for the lock, result the model id it goes on with.
IdleTask ==
    [pc |-> "idle", started |-> 0, url_read |-> 0, waited |-> FALSE,
     result |-> None]

\* openrouter.py lines 12-13 and settings.py lines 15-16: the module state
\* after import, with the endpoint the environment names
ResolveInitWith(urls) ==
    /\ llm_base_url \in urls
    /\ emulator_model_cache = None
    /\ resolve_lock = [locked |-> FALSE, waiters |-> << >>]
    /\ task = [t \in Tasks |-> IdleTask]
    /\ switches = 0
    /\ discovery = [gets |-> 0, failed |-> FALSE]

\* the model resolution at rest
ResolveRest == ResolveInitWith({OpenRouterUrl})

\* the handlers of POST /chat
Workers == 1..MaxWorkers

\* the ids of the conversations: one for each request that creates one, and
\* one that no conversation has
ConvIds == 1..MaxWorkers
MissingId == MaxWorkers + 1

\* no conversation_id in the request
NoId == 0

\* the model ids of the requests to POST /chat
CoreModels == {"openai/gpt-4o-mini", "qwen2.5-vl-72b-instruct"}

\* a ChatRequest as far as chat_completion and the router look at it: skill
\* says that the text of the last message starts with "@generate_image"
ChatRequests ==
    [conversation_id : {NoId, MissingId} \cup ConvIds, model : CoreModels,
     skill : BOOLEAN]

\* db_models.py lines 9-12: a row of the table
NoRow == [exists |-> FALSE, title |-> "", messages |-> << >>]

IdleWorker ==
    [pc |-> "idle",
     request |-> [conversation_id |-> NoId, model |-> "", skill |-> FALSE],
     conv_id |-> NoId, read |-> NoRow, generator |-> ""]

NoTitleTask == [pc |-> "none", conv_id |-> NoId, read |-> NoRow, raced |-> FALSE]

\* the empty table and the handlers before the first request, with the
\* requests and the number of requests explored
StoreInitWith(requests, workers) ==
    /\ conversations = [c \in ConvIds \cup {MissingId} |-> NoRow]
    /\ worker = [w \in Workers |-> IdleWorker]
    /\ title_task = [w \in Workers |-> NoTitleTask]
    /\ title_log = [c \in ConvIds \cup {MissingId} |-> [started |-> 0, written |-> 0]]
    /\ ever_stored = [c \in ConvIds \cup {MissingId} |-> {}]
    /\ clients = [requests |-> requests, workers |-> workers]

\* the store at rest
StoreRest == StoreInitWith({}, 0)

\* the core at rest
CoreRest == ResolveRest /\ StoreRest

Init == ChatInit /\ EmuRest /\ CoreRest

\* lines 117-119: the model the request names, or what
\* _resolve_emulator_model returns for it when the emulator is in use
ResolvedModels(int, model) == IF int THEN ModelIds ELSE {model}

\* the tool schema is injected whenever the turn is online
InjectTools_WhenOnline(offline, int) == ~offline

\* line 141: if not offline_mode and not settings.is_internal_llm()
InjectTools(offline, int) == ~offline /\ ~int

\* lines 113-212: build the payload, apply the mode policy, enter the loop
Start ==
    /\ pc = "start"
    /\ actual_model' \in ResolvedModels(internal, request.model)
    /\ messages' = MergeInstruction(request.messages,
                       SystemInstruction(request.mode,
                                         IsNativeReasoning(actual_model'),
                                         offline_mode))
    /\ payload' = [tools |-> InjectTools(offline_mode, internal),
                   temperature |-> Temperature(request.mode),
                   max_tokens |-> MaxTokens(request.mode)]
    /\ attempt' = 0
    /\ retry_needed' = TRUE
    /\ pc' = "call"
    /\ UNCHANGED << corevars, emuvars, turn, request, offline_mode, internal, db, full_response,
                    tool_call_buffer, is_calling_tool, search_query, out,
                    calls, outcome, nread, upstream, up >>

\* the notice is appended to the last message whatever its role
AddNotice_AnyRole(msgs) ==
    IF msgs # <<>>
    THEN [msgs EXCEPT ![Len(msgs)].content = @ \o ToolFailMsg]
    ELSE msgs

\* lines 228-232: append the notice to the last message when it is a user message
AddNotice(msgs) ==
    IF msgs # <<>> /\ msgs[Len(msgs)].role = "user"
    THEN [msgs EXCEPT ![Len(msgs)].content = @ \o ToolFailMsg]
    ELSE msgs

\* the loop without the reset of retry_needed (line 214)
LoopNext_NoReset(retry, att) == IF att < 2 THEN "call" ELSE "post"

\* where the while loop of line 213 goes after an iteration
LoopNext(retry, att) == IF retry /\ att < 2 THEN "call" ELSE "post"

\* lines 213-238: one upstream request of the loop, answered by resp
Call(resp) ==
    /\ pc = "call"
    /\ attempt' = attempt + 1
    /\ calls' = Append(calls, Snapshot(IF attempt = 0 THEN "first" ELSE "retry", resp))
    /\ nread' = 0
    /\ CASE resp = "exc" ->
              /\ out' = Append(out, ErrorEvent("exception"))
              /\ pc' = "done" /\ outcome' = "exception"
              /\ retry_needed' = FALSE
              /\ UNCHANGED << payload, messages >>
         [] resp = "ok" ->
              /\ pc' = "stream"
              /\ retry_needed' = FALSE
              /\ UNCHANGED << out, outcome, payload, messages >>
         [] resp # "ok" /\ ShouldRetry(payload, resp) ->
              /\ payload' = PopTools(payload)
              /\ messages' = AddNotice(messages)
              /\ retry_needed' = TRUE
              /\ pc' = LoopNext(TRUE, attempt + 1)
              /\ UNCHANGED << out, outcome >>
         [] OTHER ->
              /\ out' = Append(out, ErrorEvent("OpenRouter API Error"))
              /\ pc' = "done" /\ outcome' = "status"
              /\ retry_needed' = FALSE
              /\ UNCHANGED << payload, messages >>
    /\ UNCHANGED << corevars, emuvars, turn, actual_model, request, offline_mode, internal, db, full_response,
                    tool_call_buffer, is_calling_tool, search_query, upstream, up >>


\* a delta that carries non-empty content and nothing else
IsPlainContent(line) ==
    /\ line.kind = "delta" /\ ~line.tc
    /\ line.content # <<>>
    /\ line.reasoning = <<>> /\ line.thought = <<>> /\ line.reasoning_content = <<>>

\* bookkeeping of what the first stream carried
Observe(u, line) ==
    LET plain == u.only_content /\ ~u.ended /\ (IsPlainContent(line) \/ line.kind = "done")
    IN [only_content |-> plain,
        ended |-> u.ended \/ line.kind = "done",
        named_web_search |-> u.named_web_search
                              \/ (line.kind = "delta" /\ line.tc /\ line.hasfn
                                  /\ line.name = WebSearch),
        sent |-> IF plain /\ IsPlainContent(line) THEN Append(u.sent, line.content)
                 ELSE IF plain THEN u.sent ELSE <<>>]

\* every fragment replaces the buffered arguments
BufferToolCall_KeepsLast(buf, line) ==
    [id |-> IF line.tcid # <<>> THEN line.tcid ELSE buf.id,
     name |-> IF line.hasfn THEN buf.name \o line.name ELSE buf.name,
     arguments |-> IF line.hasfn /\ line.args # <<>> THEN line.args ELSE buf.arguments]

\* lines 249-259: buffer tool_calls[0]
BufferToolCall(buf, line) ==
    [id |-> IF line.tcid # <<>> THEN line.tcid ELSE buf.id,
     name |-> IF line.hasfn THEN buf.name \o line.name ELSE buf.name,
     arguments |-> IF line.hasfn THEN buf.arguments \o line.args ELSE buf.arguments]

\* line 265: delta.get("reasoning") or delta.get("thought")
ReasoningOf(line) == IF line.reasoning # <<>> THEN line.reasoning ELSE line.thought

\* every reasoning delta is given the opening tag
ReasoningChunk_AlwaysOpens(full, r) == OpenPrefix \o r

\* lines 269-276: the text a reasoning delta adds
ReasoningChunk(full, r) == IF ~Contains(full, "OPEN") THEN OpenPrefix \o r ELSE r

\* lines 282-287: the text a content delta adds
ContentChunk(full, c) ==
    IF Contains(full, "OPEN") /\ ~Contains(full, "CLOSE") THEN ClosePrefix \o c ELSE c

\* the tags put in front of the forwarded text are left out of full_response
DeltaText_NoTags(full, line) ==
    IF ReasoningOf(line) # <<>> THEN ReasoningOf(line) ELSE line.content

\* lines 261-304: the text a delta without tool_calls adds to full_response
DeltaText(full, line) ==
    IF ReasoningOf(line) # <<>> THEN ReasoningChunk(full, ReasoningOf(line))
    ELSE IF line.content # <<>> THEN ContentChunk(full, line.content)
    ELSE <<>>

\* the upstream chunk is forwarded as it came even when the closing tag was
\* put in front of its content
DeltaEmit_AlwaysRaw(full, line) ==
    IF ReasoningOf(line) # <<>>
    THEN << CopyChunk(line, ReasoningChunk(full, ReasoningOf(line))) >>
    ELSE IF line.content # <<>> THEN << RawChunk(line, 1) >>
    ELSE <<>>

\* lines 296-304: the chunks a delta without tool_calls yields
DeltaEmit(full, line) ==
    IF ReasoningOf(line) # <<>>
    THEN << CopyChunk(line, ReasoningChunk(full, ReasoningOf(line))) >>
    ELSE IF line.content # <<>>
    THEN IF ContentChunk(full, line.content) # line.content
         THEN << CopyChunk(line, ContentChunk(full, line.content)) >>
         ELSE << RawChunk(line, 1) >>
    ELSE <<>>

\* text is forwarded after a tool call as before it
TextForwarded_Always(calling) == TRUE

\* line 261: if not is_calling_tool
TextForwarded(calling) == ~calling

\* lines 240-307: one line of the first stream
ReadLine(line) ==
    /\ pc = "stream"
    /\ line \in upstream.first
    /\ nread < MaxLines
    /\ nread' = IF line.kind = "badshape" THEN 0 ELSE nread + 1
    /\ up' = Observe(up, line)
    /\ CASE line.kind = "badshape" ->
              \* "tool_calls" in None raises TypeError, caught at line 436
              /\ out' = Append(out, ErrorEvent("exception"))
              /\ pc' = "done" /\ outcome' = "exception"
              /\ UNCHANGED << full_response, tool_call_buffer, is_calling_tool >>
         [] line.kind = "delta" /\ line.tc ->
              /\ is_calling_tool' = TRUE
              /\ tool_call_buffer' = BufferToolCall(tool_call_buffer, line)
              /\ UNCHANGED << full_response, out, pc, outcome >>
         [] line.kind = "delta" /\ ~line.tc /\ TextForwarded(is_calling_tool) ->
              /\ full_response' = full_response \o DeltaText(full_response, line)
              /\ out' = out \o DeltaEmit(full_response, line)
              /\ UNCHANGED << tool_call_buffer, is_calling_tool, pc, outcome >>
         [] OTHER ->
              UNCHANGED << full_response, tool_call_buffer, is_calling_tool,
                           out, pc, outcome >>
    /\ UNCHANGED << corevars, emuvars, turn, actual_model, request, offline_mode, internal, db, messages, payload,
                    attempt, retry_needed, search_query, calls, upstream >>

\* the upstream closes the first stream: the loop of line 213 ends
EndStream ==
    /\ pc = "stream"
    /\ pc' = LoopNext(retry_needed, attempt)
    /\ nread' = 0
    /\ UNCHANGED << corevars, emuvars, turn, actual_model, request, offline_mode, internal, db, messages, payload,
                    attempt, retry_needed, full_response, tool_call_buffer,
                    is_calling_tool, search_query, out, calls, outcome, upstream, up >>

\* a transport exception while reading a stream (line 436)
StreamException ==
    /\ pc \in {"stream", "stream2"}
    /\ out' = Append(out, ErrorEvent("exception"))
    /\ pc' = "done"
    /\ outcome' = IF pc = "stream" THEN "exception" ELSE "followup_exception"
    /\ nread' = 0
    /\ UNCHANGED << corevars, emuvars, turn, actual_model, request, offline_mode, internal, db, messages, payload,
                    attempt, retry_needed, full_response, tool_call_buffer,
                    is_calling_tool, search_query, calls, upstream, up >>

\* lines 318 and 323: a corrective chunk is due
NeedsCorrection(full) ==
    ~Contains(full, "OPEN") \/ CharLen(ThinkInner(full)) < MinThinkLen

\* the cleaned text is not trimmed
Enforced_NoTrim(full) ==
    IF ~Contains(full, "OPEN") THEN Wrap(full)
    ELSE IF CharLen(ThinkInner(full)) < MinThinkLen
    THEN IF StripTags(full) # <<>> THEN Wrap(StripTags(full))
         ELSE Wrap(full)
    ELSE full

\* lines 311-333: the text after post-stream enforcement
Enforced(full) ==
    IF ~Contains(full, "OPEN") THEN Wrap(full)
    ELSE IF CharLen(ThinkInner(full)) < MinThinkLen
    THEN IF Strip(StripTags(full)) # <<>> THEN Wrap(Strip(StripTags(full)))
         ELSE Wrap(full)
    ELSE full

\* line 311: whether enforcement applies
EnforcementApplies(m, full, calling) == m = "thinking" /\ full # <<>> /\ ~calling

\* lines 309-333: post-stream thinking enforcement
Enforce ==
    /\ pc = "post"
    /\ pc' = "tool"
    /\ IF /\ EnforcementApplies(request.mode, full_response, is_calling_tool)
          /\ NeedsCorrection(full_response)
       THEN /\ full_response' = Enforced(full_response)
            /\ out' = Append(out, OwnChunk(Enforced(full_response)))
       ELSE UNCHANGED << full_response, out >>
    /\ UNCHANGED << corevars, emuvars, turn, actual_model, request, offline_mode, internal, db, messages, payload,
                    attempt, retry_needed, tool_call_buffer, is_calling_tool,
                    search_query, calls, outcome, nread, upstream, up >>


\* the buffered call is acted upon only when its arguments parse
ToolRequested_NeedsArgs(calling, buf) ==
    calling /\ buf.name = WebSearch /\ ArgsAreJson(buf.arguments)

\* line 336: the buffered call is acted upon
ToolRequested(calling, buf) == calling /\ buf.name = WebSearch

\* lines 335-345: decide on the tool call and announce the search
ToolDecide ==
    /\ pc = "tool"
    /\ IF ToolRequested(is_calling_tool, tool_call_buffer)
       THEN /\ search_query' = ParseQuery(tool_call_buffer.arguments)
            /\ out' = Append(out, OwnChunk(SearchMsg(ParseQuery(tool_call_buffer.arguments))))
            /\ pc' = "search"
       ELSE /\ pc' = "persist"
            /\ UNCHANGED << search_query, out >>
    /\ UNCHANGED << corevars, emuvars, turn, actual_model, request, offline_mode, internal, db, messages, payload,
                    attempt, retry_needed, full_response, tool_call_buffer,
                    is_calling_tool, calls, outcome, nread, upstream, up >>

\* what the search of lines 347-386 may return for a query
SearchResults(q) ==
    IF q = <<>> THEN { <<"No results found.">> }
    ELSE { <<"RESULTS">>, <<"Search failed with error">> }

\* the assistant message without the text assembled before the tool call
AssistantToolMsg_DropsText(full, buf) ==
    [role |-> "assistant",
     content |-> None,
     tool_calls |-> << [id |-> buf.id, name |-> buf.name, arguments |-> buf.arguments] >>,
     tool_call_id |-> <<>>]

\* lines 389-400: the assistant message of the tool round trip
AssistantToolMsg(full, buf) ==
    [role |-> "assistant",
     content |-> IF full # <<>> THEN full ELSE None,
     tool_calls |-> << [id |-> buf.id, name |-> buf.name, arguments |-> buf.arguments] >>,
     tool_call_id |-> <<>>]

\* lines 402-407: the tool message of the tool round trip
ToolResultMsg(buf, results) ==
    [role |-> "tool", content |-> results, tool_calls |-> <<>>, tool_call_id |-> buf.id]

\* lines 347-412: run the search, extend the messages, drop the tool schema
Search(results) ==
    /\ pc = "search"
    /\ results \in SearchResults(search_query)
    /\ messages' = messages \o << AssistantToolMsg(full_response, tool_call_buffer),
                                  ToolResultMsg(tool_call_buffer, results) >>
    /\ payload' = PopTools(payload)
    /\ pc' = "followup"
    /\ UNCHANGED << corevars, emuvars, turn, actual_model, request, offline_mode, internal, db, attempt, retry_needed,
                    full_response, tool_call_buffer, is_calling_tool,
                    search_query, out, calls, outcome, nread, upstream, up >>

\* lines 414-417: the follow-up request, answered by resp
FollowupCall(resp) ==
    /\ pc = "followup"
    /\ calls' = Append(calls, Snapshot("followup", resp))
    /\ nread' = 0
    /\ CASE resp = "ok" ->
              /\ pc' = "stream2"
              /\ UNCHANGED << out, outcome >>
         [] resp = "exc" ->
              /\ out' = Append(out, ErrorEvent("exception"))
              /\ pc' = "done" /\ outcome' = "followup_exception"
         [] OTHER ->
              /\ out' = Append(out, ErrorEvent("Followup OpenRouter API Error."))
              /\ pc' = "done" /\ outcome' = "followup_status"
    /\ UNCHANGED << corevars, emuvars, turn, actual_model, request, offline_mode, internal, db, messages, payload,
                    attempt, retry_needed, full_response, tool_call_buffer,
                    is_calling_tool, search_query, upstream, up >>

\* every delta of the follow-up stream is forwarded
Forwarded2_AnyDelta(line) == line.kind = "delta"

\* lines 420-428: a line of the follow-up stream is forwarded
Forwarded2(line) == line.kind = "delta" /\ line.content # <<>>

\* lines 419-428: one line of the follow-up stream
ReadLine2(line) ==
    /\ pc = "stream2"
    /\ line \in upstream.second
    /\ nread < MaxLines2
    /\ nread' = nread + 1
    /\ IF Forwarded2(line)
       THEN /\ full_response' = full_response \o line.content
            /\ out' = Append(out, RawChunk(line, 2))
       ELSE UNCHANGED << full_response, out >>
    /\ UNCHANGED << corevars, emuvars, turn, actual_model, request, offline_mode, internal, db, messages, payload,
                    attempt, retry_needed, tool_call_buffer, is_calling_tool,
                    search_query, calls, pc, outcome, upstream, up >>

\* the upstream closes the follow-up stream
EndStream2 ==
    /\ pc = "stream2"
    /\ pc' = "persist"
    /\ nread' = 0
    /\ UNCHANGED << corevars, emuvars, turn, actual_model, request, offline_mode, internal, db, messages, payload,
                    attempt, retry_needed, full_response, tool_call_buffer,
                    is_calling_tool, search_query, out, calls, outcome, upstream, up >>

\* an assistant message is stored even when no text was assembled
Persist_StoresEmpty(found) ==
    /\ pc = "persist"
    /\ db' = IF found
             THEN [db EXCEPT !.messages = Append(@, Msg("assistant", full_response))]
             ELSE db
    /\ pc' = "done" /\ outcome' = "complete"
    /\ UNCHANGED << corevars, emuvars, turn, actual_model, request, offline_mode, internal, messages, payload,
                    attempt, retry_needed, full_response, tool_call_buffer,
                    is_calling_tool, search_query, out, calls, nread, upstream, up >>

\* lines 430-434: append the assistant message to the stored conversation.
\* found: conv_id and db are given and get_conversation finds the conversation
Persist(found) ==
    /\ pc = "persist"
    /\ db' = IF full_response # <<>> /\ found
             THEN [db EXCEPT !.messages = Append(@, Msg("assistant", full_response))]
             ELSE db
    /\ pc' = "done" /\ outcome' = "complete"
    /\ UNCHANGED << corevars, emuvars, turn, actual_model, request, offline_mode, internal, messages, payload,
                    attempt, retry_needed, full_response, tool_call_buffer,
                    is_calling_tool, search_query, out, calls, nread, upstream, up >>

\* chat.py lines 82-98: a further request on the stored conversation; the
\* client sends the stored messages followed by a new user message, the
\* last message is stored and a new generator is made
ChatCompletion ==
    /\ pc = "done"
    /\ turn < upstream.turns
    /\ turn' = turn + 1
    /\ request' = [request EXCEPT !.messages = db.messages \o << Msg("user", <<"u">>) >>]
    /\ db' = [db EXCEPT !.messages = Append(@, request'.messages[Len(request'.messages)])]
    /\ actual_model' = request.model
    /\ messages' = FreshLocals.messages
    /\ payload' = FreshLocals.payload
    /\ tool_call_buffer' = FreshLocals.tool_call_buffer
    /\ up' = FreshLocals.up
    /\ attempt' = 0
    /\ retry_needed' = FALSE
    /\ full_response' = <<>>
    /\ is_calling_tool' = FALSE
    /\ search_query' = <<>>
    /\ out' = <<>>
    /\ calls' = <<>>
    /\ pc' = "start"
    /\ outcome' = "running"
    /\ nread' = 0
    /\ UNCHANGED << corevars, emuvars, offline_mode, internal, upstream >>

Next ==
    \/ ChatCompletion
    \/ Start
    \/ \E resp \in Responses : Call(resp)
    \/ \E line \in FirstLines : ReadLine(line)
    \/ EndStream
    \/ StreamException
    \/ Enforce
    \/ ToolDecide
    \/ \E results \in { <<"No results found.">>, <<"RESULTS">>, <<"Search failed with error">> } : Search(results)
    \/ \E resp \in Responses : FollowupCall(resp)
    \/ \E line \in SecondLines : ReadLine2(line)
    \/ EndStream2
    \/ \E found \in BOOLEAN : Persist(found)

Spec == Init /\ [][Next]_vars


\* ------------------------------------- emulator (docker/emulator/emulator_app.py)
\* uuid.uuid4(): a value that was not generated before; the values are
\* named by their order of generation (n: how many were generated so far)
Uuid4(n) == n + 1

\* the models a request to the emulator may name
EmuModels == {"qwen", "llama"}

\* what the inference server may answer a request with: "ok" (200),
\* "status" (a non-200 status), "refused" (httpx.ConnectError), "badbody"
\* (200 with a body that is not JSON)
Conns == {"ok", "status", "refused", "badbody"}

\* the status of a non-200 answer of the inference server
UpstreamStatus == 400

\* One line of the inference server's streamed response.  kind: "blank",
\* "comment" (does not start with "data: "), "done" (data: [DONE]),
\* "badjson" (data: followed by text that is not JSON), "json" (a chunk
\* object); id is the chunk's own id, choices tells whether the chunk object
\* has the key "choices".
VllmLines ==
    { [kind |-> k, id |-> "", choices |-> FALSE] :
          k \in {"blank", "comment", "done", "badjson"} }
    \cup { [kind |-> "json", id |-> i, choices |-> TRUE] :
               i \in {"chatcmpl-1", "chatcmpl-2"} }
    \cup { [kind |-> "json", id |-> "chatcmpl-1", choices |-> FALSE] }

\* the chunk objects with choices among the lines
VllmChunks == { line \in VllmLines : line.kind = "json" /\ line.choices }

\* lines 258-263: the keys every rewrapped chunk is given
ResultKeys == {"id", "model", "created", "object"}

\* an event or document the emulator sends
Sent(kind, id, model, created, message, code) ==
    [kind |-> kind, id |-> id, model |-> model, created |-> created,
     message |-> message, code |-> code]

\* the chunk keeps the id the inference server gave it
TransformStreamingChunk_KeepsId(vllm_chunk, generation_id, created_ts, model) ==
    Sent("chunk", vllm_chunk.id, model, created_ts, "", 0)
        @@ [object |-> "chat.completion.chunk",
            keys |-> ResultKeys \cup (IF vllm_chunk.choices THEN {"choices"} ELSE {})]

\* _transform_streaming_chunk (lines 244-273)
\* the result has the four keys of lines 258-263 and, only when the chunk of
\* the inference server has it, "choices" (lines 266-267); "usage" is not
\* modelled
TransformStreamingChunk(vllm_chunk, generation_id, created_ts, model) ==
    Sent("chunk", generation_id, model, created_ts, "", 0)
        @@ [object |-> "chat.completion.chunk",
            keys |-> ResultKeys \cup (IF vllm_chunk.choices THEN {"choices"} ELSE {})]

\* {"error": {"message": ..., "code": ...}}
ErrorBody(message, code) == Sent("error", 0, "", 0, message, code)

\* lines 168-177: the answer to a connection failure
BackendDown == ErrorBody("vLLM backend is not available. Ensure the model server is running.", 502)

\* lines 144-148: the optional parameters that are forwarded
Whitelist ==
    {"temperature", "top_p", "max_tokens", "stop", "frequency_penalty",
     "presence_penalty", "seed", "tools", "tool_choice", "response_format",
     "logprobs", "top_logprobs", "n"}

\* the keys a request body may hold besides model, messages and stream: two
\* of the whitelist and two that only the aggregator knows
OptKeys == {"temperature", "tools", "transforms", "provider"}

\* the values of these keys
OptValues == {"v1", "v2"}

\* the ways of giving values to some of the keys
Options(keys) == UNION { [S -> OptValues] : S \in SUBSET keys }

\* line 134: a request body, a JSON object; the key stream may be missing
BodyOf(model, has_stream, stream, opts) ==
    [k \in {"model", "messages"} \cup (IF has_stream THEN {"stream"} ELSE {})
            \cup DOMAIN opts |->
        CASE k = "model" -> model
          [] k = "messages" -> << "m" >>
          [] k = "stream" -> stream
          [] OTHER -> opts[k]]

\* bodies with model, messages and stream only
PlainBodies(models) ==
    { BodyOf(m, TRUE, st, << >>) : m \in models, st \in BOOLEAN }

\* every request body explored
Bodies ==
    { BodyOf(m, h, st, o) :
          m \in EmuModels, h \in BOOLEAN, st \in BOOLEAN, o \in Options(OptKeys) }

\* dict.get
Get(body, key, default) == IF key \in DOMAIN body THEN body[key] ELSE default

\* every key of the request body is forwarded
VllmPayload_ForwardsAll(body) ==
    [k \in {"model", "messages", "stream"} \cup DOMAIN body |->
        CASE k = "model" -> Get(body, "model", None)
          [] k = "messages" -> Get(body, "messages", << >>)
          [] k = "stream" -> Get(body, "stream", FALSE)
          [] OTHER -> body[k]]

\* lines 137-152: the payload for the inference server
VllmPayload(body) ==
    [k \in {"model", "messages", "stream"} \cup (Whitelist \cap DOMAIN body) |->
        CASE k = "model" -> Get(body, "model", None)
          [] k = "messages" -> Get(body, "messages", << >>)
          [] k = "stream" -> Get(body, "stream", FALSE)
          [] OTHER -> body[k]]

\* lines 121-166: POST /api/v1/chat/completions is received; a streaming
\* request is answered with a StreamingResponse around _proxy_streaming
ChatCompletions(r, body) ==
    /\ ereq[r].pc = "idle"
    /\ r <= vllm.requests
    /\ body \in vllm.bodies
    /\ \A q \in Requests : q < r => ereq[q].pc # "idle"
    /\ LET payload_ == VllmPayload(body)
           is_streaming == Get(body, "stream", FALSE)
       IN IF is_streaming
          THEN /\ ereq' = [ereq EXCEPT ![r].pc = "proxy_streaming",
                                       ![r].stream = TRUE,
                                       ![r].model = payload_["model"],
                                       ![r].request_body = body,
                                       ![r].vllm_payload = payload_,
                                       ![r].header_id = Uuid4(uuids),
                                       ![r].status = 200]
               /\ uuids' = uuids + 1
          ELSE /\ ereq' = [ereq EXCEPT ![r].pc = "proxy_non_streaming",
                                       ![r].stream = FALSE,
                                       ![r].model = payload_["model"],
                                       ![r].request_body = body,
                                       ![r].vllm_payload = payload_]
               /\ uuids' = uuids
    /\ UNCHANGED << chatvars, corevars, now, vllm >>

\* after the error event the generator goes on to read the response's lines
AfterOpen_KeepsReading(conn) ==
    IF conn = "refused" THEN "aborted" ELSE "lines"

\* lines 210-223: where _proxy_streaming goes once the response is open: the
\* lines of a 200 response are read, a non-200 response ends the generator
\* (return, line 221), a failed connection raises
AfterOpen(conn) ==
    CASE conn = "ok" -> "lines"
      [] conn = "status" -> "done"
      [] OTHER -> "aborted"

\* lines 200-221: _proxy_streaming opens the request to the inference server
ProxyStreaming(r, conn) ==
    /\ ereq[r].pc = "proxy_streaming"
    /\ conn \in {"ok", "status", "refused"}
    /\ uuids' = uuids + 1
    /\ ereq' = [ereq EXCEPT
          ![r].generation_id = Uuid4(uuids),
          ![r].created = now,
          ![r].conn = conn,
          ![r].pc = AfterOpen(conn),
          ![r].body = IF conn = "status"
                      THEN << ErrorBody("upstream error text", UpstreamStatus) >>
                      ELSE <<>>]
    /\ UNCHANGED << chatvars, corevars, now, vllm >>

\* lines 223-241: the events a line of the inference server yields
ProxyEvents(req, line) ==
    CASE line.kind = "done" -> << Sent("done", 0, "", 0, "", 0) >>
      [] line.kind = "json" ->
            << TransformStreamingChunk(line, req.generation_id, req.created, req.model) >>
      [] line.kind = "badjson" -> << Sent("raw", 0, "", 0, "", 0) >>
      [] OTHER -> <<>>

\* lines 223-241: one line of the inference server's response
ProxyLine(r, line) ==
    /\ ereq[r].pc = "lines"
    /\ line \in vllm.lines
    /\ ereq[r].nread < MaxVllmLines
    /\ ereq' = [ereq EXCEPT ![r].nread = @ + 1,
                            ![r].body = @ \o ProxyEvents(ereq[r], line)]
    /\ UNCHANGED << chatvars, corevars, uuids, now, vllm >>

\* the inference server closes its response
ProxyEnd(r) ==
    /\ ereq[r].pc = "lines"
    /\ ereq' = [ereq EXCEPT ![r].pc = "done"]
    /\ UNCHANGED << chatvars, corevars, uuids, now, vllm >>

\* lines 276-315 with the except clauses of lines 168-187
ProxyNonStreaming(r, conn) ==
    /\ ereq[r].pc = "proxy_non_streaming"
    /\ uuids' = uuids + 1
    /\ ereq' = [ereq EXCEPT
          ![r].generation_id = Uuid4(uuids),
          ![r].created = now,
          ![r].conn = conn,
          ![r].pc = "done",
          ![r].status = CASE conn = "ok" -> 200
                          [] conn = "status" -> UpstreamStatus
                          [] conn = "refused" -> 502
                          [] OTHER -> 500,
          ![r].body = CASE conn = "ok" ->
                             << Sent("completion", Uuid4(uuids), ereq[r].model, now, "", 0) >>
                        [] conn = "status" ->
                             << ErrorBody("upstream error text", UpstreamStatus) >>
                        [] conn = "refused" -> << BackendDown >>
                        [] OTHER -> << ErrorBody("str(e)", 500) >>]
    /\ UNCHANGED << chatvars, corevars, now, vllm >>

\* time passes
Tick ==
    /\ now < MaxTime
    /\ now' = now + 1
    /\ UNCHANGED << chatvars, corevars, ereq, uuids, vllm >>

\* the chat backend at rest
ChatRest ==
    /\ InitWith(ConvRequests, {FALSE}, {}, {}, 1)
    /\ offline_mode = FALSE

\* Several concurrent requests whose responses hold chunk objects, one
\* request against every kind of line, and one request with every body.
EmuInit ==
    /\ ChatRest
    /\ CoreRest
    /\ \/ EmuInitWith(VllmChunks, MaxRequests, PlainBodies({"qwen"}))
       \/ EmuInitWith(VllmLines, 1, PlainBodies(EmuModels))
       \/ EmuInitWith({}, 1, Bodies)

EmuNext ==
    \/ \E r \in Requests : \E body \in vllm.bodies : ChatCompletions(r, body)
    \/ \E r \in Requests, conn \in Conns : ProxyStreaming(r, conn)
    \/ \E r \in Requests, line \in VllmLines : ProxyLine(r, line)
    \/ \E r \in Requests : ProxyEnd(r)
    \/ \E r \in Requests, conn \in Conns : ProxyNonStreaming(r, conn)
    \/ Tick

EmuSpec == EmuInit /\ [][EmuNext]_vars


\* ------------- emulator model resolution (backend/services/openrouter.py 11-49)
\* settings.is_internal_llm (settings.py lines 40-42)
IsInternalLlm(url) == url # OpenRouterUrl

\* the id GET /models lists first, named by the number of provider switches
\* completed when the request was sent
Discovered(n) == << "emulator-model", n >>

\* the fallback argument: the model the request names
Fallback == << "request.model" >>

\* the cache is not looked at again under the lock
CachedUnderLock_NoCheck(cache) == FALSE

\* lines 22-24: the second look at the cache, under the lock
CachedUnderLock(cache) == cache # None

\* lines 26-30: the discovery request is sent
SendDiscovery(t) ==
    /\ task' = [task EXCEPT ![t].pc = "get",
                            ![t].started = IF task[t].pc = "idle"
                                           THEN switches ELSE @,
                            ![t].url_read = switches]
    /\ discovery' = [discovery EXCEPT !.gets = @ + 1]

\* openrouter.py lines 117-119 with lines 15-30: a task needs the model id.
\* With the aggregator it keeps the id of its request; with the emulator it
\* takes the cached id or, when the lock is free, sends the discovery
\* request, or waits for the lock.
ResolveEmulatorModel(t) ==
    /\ task[t].pc = "idle"
    /\ \A u \in Tasks : u < t => task[u].pc # "idle"
    /\ IF ~IsInternalLlm(llm_base_url)
       THEN /\ task' = [task EXCEPT ![t].pc = "done", ![t].started = switches,
                                    ![t].result = Fallback]
            /\ UNCHANGED << resolve_lock, discovery >>
       ELSE IF emulator_model_cache # None
       THEN /\ task' = [task EXCEPT ![t].pc = "done", ![t].started = switches,
                                    ![t].result = emulator_model_cache]
            /\ UNCHANGED << resolve_lock, discovery >>
       ELSE IF ~resolve_lock.locked /\ resolve_lock.waiters = << >>
       THEN /\ resolve_lock' = [resolve_lock EXCEPT !.locked = TRUE]
            /\ SendDiscovery(t)
       ELSE /\ resolve_lock' = [resolve_lock EXCEPT !.waiters = Append(@, t)]
            /\ task' = [task EXCEPT ![t].pc = "wait_lock", ![t].started = switches,
                                    ![t].waited = TRUE]
            /\ UNCHANGED discovery
    /\ UNCHANGED << chatvars, emuvars, storevars, llm_base_url, emulator_model_cache,
                    switches >>

\* lines 21-30: the first waiter gets the released lock and looks at the
\* cache again
AcquireLock(t) ==
    /\ task[t].pc = "wait_lock"
    /\ ~resolve_lock.locked
    /\ resolve_lock.waiters # << >> /\ Head(resolve_lock.waiters) = t
    /\ IF CachedUnderLock(emulator_model_cache)
       THEN /\ resolve_lock' = [resolve_lock EXCEPT !.waiters = Tail(@)]
            /\ task' = [task EXCEPT ![t].pc = "done",
                                    ![t].result = emulator_model_cache]
            /\ UNCHANGED discovery
       ELSE /\ resolve_lock' = [locked |-> TRUE, waiters |-> Tail(resolve_lock.waiters)]
            /\ SendDiscovery(t)
    /\ UNCHANGED << chatvars, emuvars, storevars, llm_base_url, emulator_model_cache,
                    switches >>

\* a failed discovery caches the fallback
CacheAfterDiscovery_StoresFallback(cache, ok, resolved_id, fallback) ==
    IF ok THEN resolved_id ELSE fallback

\* lines 31-43: the cache after the answer: written at line 36 only, when
\* the answer lists a model
CacheAfterDiscovery(cache, ok, resolved_id, fallback) ==
    IF ok THEN resolved_id ELSE cache

\* lines 30-44: the discovery request is answered; ok: status 200 with a
\* model listed
DiscoveryResponse(t, ok) ==
    /\ task[t].pc = "get"
    /\ emulator_model_cache' = CacheAfterDiscovery(emulator_model_cache, ok,
                                    Discovered(task[t].url_read), Fallback)
    /\ IF ok
       THEN /\ task' = [task EXCEPT ![t].pc = "close",
                                    ![t].result = Discovered(task[t].url_read)]
            /\ UNCHANGED discovery
       ELSE /\ task' = [task EXCEPT ![t].pc = "close", ![t].result = Fallback]
            /\ discovery' = [discovery EXCEPT !.failed = TRUE]
    /\ UNCHANGED << chatvars, emuvars, storevars, llm_base_url, resolve_lock, switches >>

\* lines 21 and 29: the HTTP client is closed and the lock released
ReleaseLock(t) ==
    /\ task[t].pc = "close"
    /\ task' = [task EXCEPT ![t].pc = "done"]
    /\ resolve_lock' = [resolve_lock EXCEPT !.locked = FALSE]
    /\ UNCHANGED << chatvars, emuvars, storevars, llm_base_url, emulator_model_cache,
                    switches, discovery >>

\* routers/settings.py lines 69-88: PUT /settings/llm-provider
SetLlmProvider(url) ==
    /\ switches < MaxSwitches
    /\ llm_base_url' = url
    /\ emulator_model_cache' = None
    /\ switches' = switches + 1
    /\ discovery' = [gets |-> 0, failed |-> FALSE]
    /\ UNCHANGED << chatvars, emuvars, storevars, resolve_lock, task >>

\* the requests arrive under either provider
ResolveInit ==
    /\ ChatRest
    /\ EmuRest
    /\ StoreRest
    /\ ResolveInitWith({EmulatorUrl, OpenRouterUrl})

ResolveNext ==
    \/ \E t \in Tasks : ResolveEmulatorModel(t)
    \/ \E t \in Tasks : AcquireLock(t)
    \/ \E t \in Tasks, ok \in BOOLEAN : DiscoveryResponse(t, ok)
    \/ \E t \in Tasks : ReleaseLock(t)
    \/ \E url \in {EmulatorUrl, OpenRouterUrl} : SetLlmProvider(url)

ResolveSpec == ResolveInit /\ [][ResolveNext]_vars


\* ---- conversation store (backend/routers/chat.py, backend/services/history.py)
\* services/llm_router.py lines 19-25: the generator that serves the request
GetChatGenerator(req) ==
    IF req.skill THEN "generate_image_stream"
    ELSE IF req.model = "qwen2.5-vl-72b-instruct" THEN "generate_chat_internal"
    ELSE "generate_chat_openrouter"

\* where the handler goes once the generator is chosen; only the turns of
\* generate_chat_openrouter are followed further
AfterRouting(generator) ==
    IF generator = "generate_chat_openrouter" THEN "stream" ELSE "elsewhere"

\* the message of a role in the turn of a handler; every turn has its own
TurnMsg(role, w) == Msg(role, << "turn", w >>)

\* chat.py line 69: the title a conversation is created with
InitialTitle == "first_content[:35]"

\* chat.py line 57: the title the title request returned
GeneratedTitle == "new_title"

\* the title task is started by every request
StartsTitleTask_Always(conv_id) == TRUE

\* chat.py lines 65 and 80: the title task is started in the branch that
\* creates the conversation
StartsTitleTask(conv_id) == conv_id = NoId

\* the message is appended to the list that is stored now
Appended_ToStored(stored, read, msg) == Append(stored, msg)

\* chat.py line 85 and openrouter.py line 432: the new list is the list that
\* was read with the message appended
Appended(stored, read, msg) == Append(read, msg)

\* history.py lines 18-27: update_conversation writes the column messages
WriteMessages(stored, msgs) == [stored EXCEPT !.messages = msgs]

\* the row is written back as it was read, with the new title
WriteTitle_WholeRow(stored, read, title) == [read EXCEPT !.title = title]

\* history.py lines 29-34: update_conversation_title writes the column title
WriteTitle(stored, read, title) == [stored EXCEPT !.title = title]

\* the id of a new row (db_models.py line 9: a new UUID)
NewConvId == CHOOSE c \in ConvIds : ~conversations[c].exists
                /\ \A d \in ConvIds : d < c => conversations[d].exists

\* history.update_conversation (lines 18-27) called by a handler with the
\* list it computed: the row is looked up and its messages replaced
UpdateConversation(c, msgs) ==
    IF conversations[c].exists
    THEN /\ conversations' = [conversations EXCEPT ![c] = WriteMessages(@, msgs)]
         /\ ever_stored' = [ever_stored EXCEPT
                               ![c] = @ \cup { msgs[i] : i \in 1..Len(msgs) }]
    ELSE UNCHANGED << conversations, ever_stored >>

\* chat.py lines 15-92: POST /chat is received.  Without a conversation_id
\* the conversation is created with the messages of the request and the
\* title task is handed to the executor; with one, the conversation is
\* looked up (line 83).
PostChat(w, req) ==
    /\ worker[w].pc = "idle"
    /\ w <= clients.workers
    /\ \A u \in Workers : u < w => worker[u].pc # "idle"
    /\ req.conversation_id \in {NoId, MissingId}
                                \cup { c \in ConvIds : conversations[c].exists }
    /\ LET conv_id == IF req.conversation_id = NoId THEN NewConvId
                      ELSE req.conversation_id
       IN /\ IF req.conversation_id = NoId
             THEN /\ conversations' = [conversations EXCEPT ![conv_id] =
                         [exists |-> TRUE, title |-> InitialTitle,
                          messages |-> << TurnMsg("user", w) >>]]
                  /\ ever_stored' = [ever_stored EXCEPT ![conv_id] = { TurnMsg("user", w) }]
                  /\ worker' = [worker EXCEPT ![w] =
                         [pc |-> AfterRouting(GetChatGenerator(req)),
                          request |-> req, conv_id |-> conv_id, read |-> NoRow,
                          generator |-> GetChatGenerator(req)]]
             ELSE /\ worker' = [worker EXCEPT ![w] =
                         [pc |-> "append", request |-> req, conv_id |-> conv_id,
                          read |-> conversations[conv_id], generator |-> ""]]
                  /\ UNCHANGED << conversations, ever_stored >>
          /\ IF StartsTitleTask(req.conversation_id)
             THEN /\ title_task' = [title_task EXCEPT ![w] =
                         [pc |-> "scheduled", conv_id |-> conv_id, read |-> NoRow,
                          raced |-> FALSE]]
                  /\ title_log' = [title_log EXCEPT ![conv_id].started = @ + 1]
             ELSE UNCHANGED << title_task, title_log >>
    /\ UNCHANGED << chatvars, emuvars, resvars, clients >>

\* chat.py lines 84-92: the last message of the request is appended to the
\* conversation that was found, and the generator is chosen
AppendUserMessage(w) ==
    /\ worker[w].pc = "append"
    /\ LET c == worker[w].conv_id
       IN IF worker[w].read.exists
          THEN UpdateConversation(c, Appended(conversations[c].messages,
                                              worker[w].read.messages,
                                              TurnMsg("user", w)))
          ELSE UNCHANGED << conversations, ever_stored >>
    /\ worker' = [worker EXCEPT
          ![w].pc = AfterRouting(GetChatGenerator(worker[w].request)),
          ![w].generator = GetChatGenerator(worker[w].request)]
    /\ UNCHANGED << chatvars, emuvars, resvars, title_task, title_log, clients >>

\* openrouter.py lines 430-431: the stream is over; with a non-empty
\* full_response the conversation is looked up
StreamCompleted(w, text) ==
    /\ worker[w].pc = "stream"
    /\ worker' = [worker EXCEPT
          ![w].pc = IF text THEN "persist" ELSE "done",
          ![w].read = IF text THEN conversations[worker[w].conv_id] ELSE @]
    /\ UNCHANGED << chatvars, emuvars, resvars, conversations, title_task, title_log,
                    ever_stored, clients >>

\* openrouter.py lines 432-434: the assistant message is appended to the
\* conversation that was found
AppendAssistantMessage(w) ==
    /\ worker[w].pc = "persist"
    /\ LET c == worker[w].conv_id
       IN IF worker[w].read.exists
          THEN UpdateConversation(c, Appended(conversations[c].messages,
                                              worker[w].read.messages,
                                              TurnMsg("assistant", w)))
          ELSE UNCHANGED << conversations, ever_stored >>
    /\ worker' = [worker EXCEPT ![w].pc = "done"]
    /\ UNCHANGED << chatvars, emuvars, resvars, title_task, title_log, clients >>

\* chat.py lines 32-54: the executor runs generate_title_task; without an
\* API key it returns, else it posts the title request
GenerateTitleTask(w, has_key) ==
    /\ title_task[w].pc = "scheduled"
    /\ title_task' = [title_task EXCEPT ![w].pc = IF has_key THEN "posted" ELSE "done"]
    /\ UNCHANGED << chatvars, emuvars, resvars, conversations, worker, title_log,
                    ever_stored, clients >>

\* chat.py lines 55-61 and history.py line 30: the title request is answered;
\* with status 200 update_conversation_title looks the conversation up
TitleResponse(w, ok) ==
    /\ title_task[w].pc = "posted"
    /\ title_task' = [title_task EXCEPT
          ![w].pc = IF ok THEN "commit" ELSE "done",
          ![w].read = IF ok THEN conversations[title_task[w].conv_id] ELSE @]
    /\ UNCHANGED << chatvars, emuvars, resvars, conversations, worker, title_log,
                    ever_stored, clients >>

\* history.py lines 31-34: the title of the conversation that was found is
\* set and committed
UpdateConversationTitle(w) ==
    /\ title_task[w].pc = "commit"
    /\ LET c == title_task[w].conv_id
       IN /\ IF title_task[w].read.exists
             THEN /\ conversations' = [conversations EXCEPT
                         ![c] = WriteTitle(@, title_task[w].read, GeneratedTitle)]
                  /\ title_log' = [title_log EXCEPT ![c].written = @ + 1]
             ELSE UNCHANGED << conversations, title_log >>
          /\ title_task' = [title_task EXCEPT
                ![w].pc = "done",
                ![w].raced = \E u \in Workers :
                                /\ worker[u].conv_id = c
                                /\ worker[u].pc = "persist"]
    /\ UNCHANGED << chatvars, emuvars, resvars, worker, ever_stored, clients >>

\* One request of every kind, and several concurrent requests to
\* generate_chat_openrouter.
StoreInit ==
    /\ ChatRest
    /\ EmuRest
    /\ ResolveRest
    /\ \/ StoreInitWith(ChatRequests, 1)
       \/ StoreInitWith({ req \in ChatRequests :
                             req.model = "openai/gpt-4o-mini" /\ ~req.skill },
                        MaxWorkers)

StoreNext ==
    \/ \E w \in Workers : \E req \in clients.requests : PostChat(w, req)
    \/ \E w \in Workers : AppendUserMessage(w)
    \/ \E w \in Workers, text \in BOOLEAN : StreamCompleted(w, text)
    \/ \E w \in Workers : AppendAssistantMessage(w)
    \/ \E w \in Workers, has_key \in BOOLEAN : GenerateTitleTask(w, has_key)
    \/ \E w \in Workers, ok \in BOOLEAN : TitleResponse(w, ok)
    \/ \E w \in Workers : UpdateConversationTitle(w)

StoreSpec == StoreInit /\ [][StoreNext]_vars


\* ------------------------------------------------------ auxiliary notions
\* the turn is over
Finished == pc = "done"

\* the stored conversation got an assistant message in this turn
Persisted == Len(db.messages) > Len(request.messages)

\* content of the last stored message
PersistedText == db.messages[Len(db.messages)].content

\* an outward event that carries delta.content
IsChunk(e) == e.kind \in {"raw", "copy", "own"}

\* the search progress marker
IsMarker(e) == e.kind = "own" /\ Contains(e.content, "MARK")

IsError(e) == e.kind = "error"

RECURSIVE Concat(_)
\* concatenation of the content of the chunks of a stream
Concat(events) ==
    IF events = <<>> THEN <<>> ELSE Head(events).content \o Concat(Tail(events))

\* the number of requests of a kind among the requests made
CountCalls(kind) == Cardinality({ i \in 1..Len(calls) : calls[i].kind = kind })

\* the turn ended in the Errored state
Errored == Finished /\ outcome \in {"exception", "followup_exception", "followup_status"}

\* ------------------------------------------------------------------ claims

\* C1: in a thinking-mode turn without tool-call delta, a persisted assistant
\* text holds a <think>...</think> pair whose trimmed inner text has at least
\* 10 characters.
C1_ThinkSectionSubstantial ==
    (Finished /\ request.mode = "thinking" /\ ~is_calling_tool /\ Persisted)
        => /\ HasThinkMatch(PersistedText)
           /\ CharLen(ThinkInner(PersistedText)) >= MinThinkLen

\* C3: a turn issues at most two upstream chat-completion requests, whatever
\* the upstream does.
C3_AtMostTwoCalls == Len(calls) <= 2

\* C4: in an offline turn no request carries a tools schema and the outward
\* stream never holds the search progress marker.
C4_OfflineNoToolNoMarker ==
    offline_mode =>
        /\ \A i \in 1..Len(calls) : ~calls[i].tools
        /\ \A i \in 1..Len(out) : ~IsMarker(out[i])

\* C7: when a turn ends in the Errored state after non-empty assistant text
\* was assembled, that text is stored as the assistant message.
C7_PartialTextPersisted ==
    (Errored /\ full_response # <<>>)
        => /\ Persisted
           /\ PersistedText = full_response

\* C10: no outward chunk stems from an upstream delta that carries a
\* non-empty tool_calls array.
C10_ToolDeltaNeverForwarded ==
    \A i \in 1..Len(out) : ~out[i].tool_calls


\* the first stream ended without an exception and left web_search buffered
ToolTurn ==
    /\ Finished
    /\ outcome \in {"complete", "followup_status", "followup_exception"}
    /\ is_calling_tool
    /\ tool_call_buffer.name = WebSearch

\* the marker precedes every chunk of the follow-up answer
MarkerBeforeAnswer ==
    \E i \in 1..Len(out) :
        /\ IsMarker(out[i])
        /\ \A j \in 1..Len(out) : out[j].pass = 2 => i < j

\* C2 as stated: every turn whose upstream stream held a tool_calls delta
\* naming web_search shows the marker before the final answer and makes
\* exactly one resubmission, 2 upstream calls in all.
C2_ToolTurnTwoCalls ==
    (Finished /\ up.named_web_search)
        => /\ MarkerBeforeAnswer
           /\ CountCalls("followup") = 1
           /\ Len(calls) = 2

\* C2 amended: when the first upstream stream (after the tool-unsupported
\* retry, if any) ends without an exception and leaves web_search as the
\* buffered tool name, the marker precedes every chunk of the follow-up
\* answer and exactly one follow-up request is made; the turn makes 2
\* upstream calls, or 3 when the tool-unsupported retry preceded the stream.
C2_ToolTurnOneFollowup ==
    ToolTurn
        => /\ MarkerBeforeAnswer
           /\ CountCalls("followup") = 1
           /\ calls[Len(calls)].kind = "followup"
           /\ \/ Len(calls) = 2
              \/ /\ Len(calls) = 3
                 /\ calls[1].resp = "err_tool" /\ calls[1].tools
                 /\ calls[2].kind = "retry" /\ ~calls[2].tools

C2_Witness ==
    /\ ToolTurn /\ outcome = "complete"
    /\ Len(calls) = 2
    /\ \E j \in 1..Len(out) : out[j].pass = 2

\* the follow-up request has been sent and none of its answer has arrived
FollowupJustSent ==
    /\ calls # <<>>
    /\ calls[Len(calls)].kind = "followup"
    /\ \A j \in 1..Len(out) : out[j].pass # 2

\* the last two messages of the follow-up request are the tool round trip
\* built on the assistant content c
RoundTripMessages(m, c) ==
    LET n == Len(m) IN
    /\ n >= 2
    /\ m[n-1].role = "assistant"
    /\ m[n-1].content = c
    /\ m[n-1].tool_calls = << [id |-> tool_call_buffer.id,
                               name |-> tool_call_buffer.name,
                               arguments |-> tool_call_buffer.arguments] >>
    /\ m[n].role = "tool"
    /\ m[n].tool_call_id = m[n-1].tool_calls[1].id
    /\ m[n].content \in SearchResults(search_query)

\* C5 as stated: the follow-up request's messages are the first request's
\* messages followed by the assistant message holding exactly the text
\* assembled before the tool call and by the matching tool message.
C5_FollowupExtendsFirst ==
    FollowupJustSent
        => LET m == calls[Len(calls)].messages
               f == calls[1].messages
           IN /\ Len(m) = Len(f) + 2
              /\ SubSeq(m, 1, Len(f)) = f
              /\ RoundTripMessages(m, full_response)

\* C5 amended: the follow-up request's messages are the messages of the
\* request before it (the one whose stream carried the tool call) followed
\* by an assistant message whose content is the text assembled before the
\* tool call, or null when no text was assembled, with the tool_calls
\* array, and by a tool message with the same id and the tool result.
C5_FollowupExtendsPrevious ==
    FollowupJustSent
        => LET m == calls[Len(calls)].messages
               f == calls[Len(calls) - 1].messages
           IN /\ Len(m) = Len(f) + 2
              /\ SubSeq(m, 1, Len(f)) = f
              /\ RoundTripMessages(m, IF full_response = <<>> THEN None ELSE full_response)

C5_Witness ==
    /\ FollowupJustSent
    /\ Contains(full_response, "OPEN")
    /\ calls[Len(calls)].messages[Len(calls[Len(calls)].messages) - 1].content = full_response

\* the number of error events yielded
ErrorCount == Cardinality({ i \in 1..Len(out) : IsError(out[i]) })

\* a request that was answered with a non-200 status
Failed(c) == c.resp \in {"err_tool", "err_other"}

\* the failure of a request that the retry answers
ToolUnsupported(c) == c.kind = "first" /\ c.resp = "err_tool" /\ c.tools

\* C6: a non-200 answer to the first request that mentions tool while the
\* payload holds tools is followed by exactly one retry without tools and by
\* no error event; every other non-200 answer ends the turn with a single
\* error event and no further request.
C6_RetryOnceElseError ==
    /\ CountCalls("retry") <= 1
    /\ \A i \in 1..Len(calls) :
          /\ ToolUnsupported(calls[i])
                => /\ i = 1
                   /\ IF Len(calls) = 1
                      THEN pc = "call" /\ ErrorCount = 0
                      ELSE calls[2].kind = "retry" /\ ~calls[2].tools
                           /\ calls[2].messages # <<>>
          /\ (Failed(calls[i]) /\ ~ToolUnsupported(calls[i]))
                => /\ Finished
                   /\ i = Len(calls)
                   /\ ErrorCount = 1
                   /\ IsError(out[Len(out)])

C6_Witness ==
    /\ Finished
    /\ Len(calls) = 2
    /\ ToolUnsupported(calls[1])
    /\ calls[2].kind = "retry" /\ Failed(calls[2])

\* the sentinel line data: [DONE]
DoneLine == [kind |-> "done", content |-> <<>>, tool_calls |-> FALSE, pass |-> 1]

\* a completed turn outside thinking mode whose upstream sent non-empty
\* content deltas and then [DONE], and nothing else
PlainTurn ==
    /\ Finished /\ outcome = "complete"
    /\ request.mode # "thinking"
    /\ ~is_calling_tool
    /\ up.only_content /\ up.ended /\ up.sent # <<>>

RECURSIVE Flatten(_)
\* concatenation of a sequence of texts
Flatten(texts) == IF texts = <<>> THEN <<>> ELSE Head(texts) \o Flatten(Tail(texts))

Unclosed(t) == Contains(t, "OPEN") /\ ~Contains(t, "CLOSE")

EmptyContentDelta(line) ==
    /\ line.kind = "delta"
    /\ line.content = <<>>
    /\ line.reasoning = <<>> /\ line.thought = <<>>

\* C9: every emitted chunk with a delta.content field carries a non-empty
\* string, and a content delta whose content is empty or missing yields no
\* chunk, in the first stream and in the follow-up stream.
C9_NoEmptyChunk ==
    /\ [](\A i \in 1..Len(out) : IsChunk(out[i]) => out[i].content # <<>>)
    /\ [][\A line \in FirstLines \cup SecondLines :
             (EmptyContentDelta(line) /\ (ReadLine(line) \/ ReadLine2(line)))
                 => out' = out]_vars

C9_Witness ==
    /\ \E i \in 1..Len(out) : IsChunk(out[i]) /\ out[i].pass = 1
    /\ \E j \in 1..Len(out) : IsChunk(out[j]) /\ out[j].pass = 2
    /\ \E k \in 1..Len(out) : out[k].kind = "own"

\* --------------------------------------------------------- claims C11-C20

\* the text of the chunks yielded so far
EmittedText == Concat(SelectSeq(out, LAMBDA e : IsChunk(e)))

\* C11: when a turn completes, in any mode, an opening <think> tag that was
\* emitted is followed by a closing tag: neither the outward text nor the
\* stored text holds an opening tag without a closing tag.
C11_OpenTagClosedAtEnd ==
    (Finished /\ outcome = "complete")
        => /\ ~Unclosed(EmittedText)
           /\ Persisted => ~Unclosed(PersistedText)

\* the enforcement step of a thinking-mode turn without tool call that
\* assembled non-empty text
EnforcementStep ==
    /\ pc = "post" /\ pc' = "tool"
    /\ request.mode = "thinking" /\ ~is_calling_tool /\ full_response # <<>>

\* one corrective chunk with text t is emitted and t becomes the assembled text
CorrectedTo(t) ==
    /\ out' = Append(out, [kind |-> "own", content |-> t, tool_calls |-> FALSE, pass |-> 0])
    /\ full_response' = t

\* no corrective chunk is emitted and the assembled text stays
NotCorrected == out' = out /\ full_response' = full_response

\* the text after enforcement is what a completed turn stores
StoredAsEnforced ==
    (Finished /\ outcome = "complete" /\ request.mode = "thinking"
        /\ ~is_calling_tool /\ Persisted)
        => PersistedText = full_response

\* C12 as stated: without opening tag the text T is replaced by
\* <think>\nT\n</think>\n\nT; with a tag pair whose inner text strips to
\* fewer than 10 characters it is replaced by the same wrapping of T with its
\* tags removed; otherwise nothing is emitted and T is stored unchanged.
C12_EnforcementAsStated ==
    /\ []StoredAsEnforced
    /\ [][EnforcementStep =>
            IF ~Contains(full_response, "OPEN")
            THEN CorrectedTo(Wrap(full_response))
            ELSE IF HasThinkMatch(full_response)
                    /\ CharLen(ThinkInner(full_response)) < 10
            THEN CorrectedTo(Wrap(StripTags(full_response)))
            ELSE NotCorrected]_vars

\* C12 amended: without opening tag the text T is replaced by
\* <think>\nT\n</think>\n\nT; with an opening tag and either no closing tag
\* after it or a pair whose inner text strips to fewer than 10 characters, T
\* with its tags removed and its surrounding whitespace trimmed is wrapped
\* the same way (T itself when nothing is left); otherwise nothing is
\* emitted and T is stored unchanged.
C12_EnforcementTrimsAndCoversOpenTag ==
    /\ []StoredAsEnforced
    /\ [][EnforcementStep =>
            IF ~Contains(full_response, "OPEN")
            THEN CorrectedTo(Wrap(full_response))
            ELSE IF ~HasThinkMatch(full_response)
                    \/ CharLen(ThinkInner(full_response)) < 10
            THEN LET clean == Strip(StripTags(full_response))
                 IN CorrectedTo(Wrap(IF clean # <<>> THEN clean ELSE full_response))
            ELSE NotCorrected]_vars

C12_Witness ==
    /\ pc = "tool" /\ request.mode = "thinking" /\ ~is_calling_tool
    /\ Len(out) >= 2
    /\ Contains(out[1].content, "OPEN")
    /\ out[Len(out)].kind = "own"
    /\ out[Len(out)].content = Wrap(<<"c">>)

\* the first stream ended without an exception and left a tool call buffered
ToolCallBuffered ==
    /\ Finished
    /\ outcome \in {"complete", "followup_status", "followup_exception"}
    /\ is_calling_tool

\* nothing was emitted after the first stream and no follow-up call was made
CompletedWithStreamedContent ==
    /\ outcome = "complete"
    /\ \A i \in 1..Len(out) : ~IsMarker(out[i]) /\ IsChunk(out[i]) /\ out[i].pass = 1
    /\ CountCalls("followup") = 0
    /\ full_response = Concat(out)
    /\ Persisted => PersistedText = full_response

\* C13 as stated: when the buffered tool name is not web_search, or the
\* buffered arguments do not parse as JSON, no marker is emitted, no second
\* call is made and the turn completes with the content streamed so far.
C13_NoToolNoMarkerNoSecondCall ==
    (ToolCallBuffered
        /\ (tool_call_buffer.name # WebSearch \/ ~ArgsAreJson(tool_call_buffer.arguments)))
        => CompletedWithStreamedContent

\* C13 amended: when the buffered tool name is not web_search, no marker is
\* emitted, no second call is made and the turn completes with the content
\* streamed so far; when the name is web_search and the buffered arguments
\* do not parse as JSON, no search is run, but the marker is emitted with an
\* empty query and the follow-up call is made with the tool result
\* "No results found.".
C13_OnlyTheNameDecides ==
    /\ (ToolCallBuffered /\ tool_call_buffer.name # WebSearch)
          => CompletedWithStreamedContent
    /\ (ToolCallBuffered /\ tool_call_buffer.name = WebSearch
            /\ ~ArgsAreJson(tool_call_buffer.arguments))
          => /\ search_query = <<>>
             /\ \E i \in 1..Len(out) :
                   out[i].kind = "own" /\ out[i].content = <<"NL", "NL", "MARK", "NL", "NL">>
             /\ CountCalls("followup") = 1
             /\ LET m == calls[Len(calls)].messages
                IN m[Len(m)].role = "tool" /\ m[Len(m)].content = <<"No results found.">>

C13_Witness ==
    /\ ToolCallBuffered /\ outcome = "complete"
    /\ tool_call_buffer.name = WebSearch
    /\ ~ArgsAreJson(tool_call_buffer.arguments)
    /\ \E j \in 1..Len(out) : out[j].pass = 2

\* C14: a malformed line (not JSON, or JSON of an unexpected shape) is
\* skipped: reading it yields nothing and leaves the stream open, in the
\* first stream and in the follow-up stream.
C14_MalformedLineSkipped ==
    [][\A line \in FirstLines \cup SecondLines :
          (line.kind \in {"badjson", "badshape"} /\ (ReadLine(line) \/ ReadLine2(line)))
              => (out' = out /\ pc' = pc)]_vars

\* C15: the stored messages never hold two consecutive user messages, a
\* tool-role message or a tool_calls entry.
C15_StoredMessagesAlternate ==
    /\ \A i \in 1..(Len(db.messages) - 1) :
          ~(db.messages[i].role = "user" /\ db.messages[i+1].role = "user")
    /\ \A i \in 1..Len(db.messages) :
          db.messages[i].role # "tool" /\ db.messages[i].tool_calls = <<>>

\* a request on an existing conversation stores its last message, a user message
RequestStoresUserMessage ==
    ChatCompletion
        => /\ request'.messages[Len(request'.messages)].role = "user"
           /\ db'.messages = Append(db.messages, request'.messages[Len(request'.messages)])

\* the stored messages change at no other step
StoredOnlyByTurn ==
    (~ChatCompletion /\ ~Persist(TRUE) /\ ~Persist(FALSE)) => db' = db

C17_ModePolicy ==
    \A i \in 1..Len(calls) :
        LET c == calls[i]
            m == request.mode
        IN /\ m = "fast" => (c.temperature = 7 /\ c.max_tokens = 512)
           /\ m = "thinking" =>
                 /\ c.temperature = 3 /\ c.max_tokens = 0
                 /\ Contains(c.messages[1].content, "I_THINK_TAGS")
                       <=> ~IsNativeReasoning(c.model)
           /\ m \in {"auto", "pro"} => (c.temperature = 5 /\ c.max_tokens = 0)
           /\ c.max_tokens # 0 => m = "fast"

C17_Witness ==
    /\ Len(calls) >= 1
    /\ request.mode = "thinking"
    /\ calls[1].model # request.model
    /\ IsNativeReasoning(calls[1].model)
    /\ ~Contains(calls[1].messages[1].content, "I_THINK_TAGS")

\* the tokens that stand for the mode instructions
InstructionTokens == {"I_FAST", "I_NATIVE", "I_THINK_TAGS", "I_AUTO_TAGS", "I_PRO"}

RECURSIVE InstructionCount(_)
\* how often a mode instruction occurs in the contents of a message list
InstructionCount(msgs) ==
    IF msgs = <<>> THEN 0
    ELSE Cardinality({ k \in 1..Len(Head(msgs).content) :
                          Head(msgs).content[k] \in InstructionTokens })
         + InstructionCount(Tail(msgs))

Carrying(r) ==
    { i \in 1..Len(ereq[r].body) : ereq[r].body[i].kind \in {"chunk", "completion"} }

\* C19: the rewrapped chunks of one response carry the same id, the same
\* created timestamp and the same model, and the responses of two distinct
\* requests never carry the same id.
C19_OneIdPerResponse ==
    /\ \A r \in Requests : \A i, j \in Carrying(r) :
          /\ ereq[r].body[i].id = ereq[r].body[j].id
          /\ ereq[r].body[i].created = ereq[r].body[j].created
          /\ ereq[r].body[i].model = ereq[r].body[j].model
          /\ ereq[r].body[i].model = ereq[r].model
    /\ \A r, q \in Requests : \A i \in Carrying(r), j \in Carrying(q) :
          r # q => ereq[r].body[i].id # ereq[q].body[j].id

C19_Witness ==
    /\ \A r \in {1, 2} : ereq[r].stream /\ Cardinality(Carrying(r)) >= 2
    /\ ereq[1].pc = "lines" /\ ereq[2].pc = "lines"
    /\ ereq[1].created # ereq[2].created

\* C20: when the inference server refuses the connection, the emulator
\* answers with status 502 and the fixed message, for a streaming request
\* as for a non-streaming one.
C20_BackendDownReported ==
    \A r \in Requests :
        ereq[r].conn = "refused"
            => /\ ereq[r].status = 502
               /\ ereq[r].body =
                     << [kind |-> "error", id |-> 0, model |-> "", created |-> 0,
                         message |-> "vLLM backend is not available. Ensure the model server is running.",
                         code |-> 502] >>

\* --------------------------------------------------------- claims C21-C30
\* C21: on the streaming path a non-200 status of the inference server
\* yields exactly one event, {error: {message, code}} with code equal to
\* that status, and the stream is over: no chunk, no passed-through line and
\* no [DONE] follows.
C21_StatusErrorEndsStream ==
    \A r \in Requests :
        (ereq[r].stream /\ ereq[r].conn = "status")
            => /\ Len(ereq[r].body) = 1
               /\ ereq[r].body[1].kind = "error"
               /\ ereq[r].body[1].code = UpstreamStatus
               /\ ereq[r].body[1].message = "upstream error text"
               /\ ereq[r].pc = "done"

C21_Witness ==
    /\ ereq[1].stream /\ ereq[1].conn = "status" /\ ereq[1].pc = "done"
    /\ ereq[2].stream /\ ereq[2].pc = "done" /\ Len(ereq[2].body) = MaxVllmLines

\* the keys of the JSON document of a streamed data line: a rewrapped chunk
\* has its keys, the error document has "error", a passed-through line is
\* not a JSON document and has none
KeysOf(event) ==
    CASE event.kind = "chunk" -> event.keys
      [] event.kind = "error" -> {"error"}
      [] OTHER -> {}

\* C22: every data line of a streamed response other than [DONE] holds the
\* keys id, model, created, object and choices, with object =
\* "chat.completion.chunk" and the id generated for the response ("gen-"
\* followed by hex digits), whatever the chunk of the inference server held.
C22_EveryChunkHasAllKeys ==
    \A r \in Requests : \A i \in 1..Len(ereq[r].body) :
        (ereq[r].stream /\ ereq[r].body[i].kind # "done")
            => /\ (ResultKeys \cup {"choices"}) \subseteq KeysOf(ereq[r].body[i])
               /\ ereq[r].body[i].kind = "chunk"
               /\ ereq[r].body[i].object = "chat.completion.chunk"
               /\ ereq[r].body[i].id = ereq[r].generation_id

\* C23: the payload sent to the inference server holds model, messages and
\* stream and, of the other keys, exactly the whitelisted ones the request
\* body holds, each with the value the body gives it.
C23_OnlyWhitelistForwarded ==
    \A r \in Requests :
        ereq[r].pc # "idle"
            => LET body == ereq[r].request_body
                   sent == ereq[r].vllm_payload
               IN /\ DOMAIN sent \ {"model", "messages", "stream"}
                        = (DOMAIN body \cap Whitelist) \ {"model", "messages", "stream"}
                  /\ {"model", "messages", "stream"} \subseteq DOMAIN sent
                  /\ \A k \in DOMAIN sent \cap DOMAIN body : sent[k] = body[k]

C23_Witness ==
    /\ ereq[1].pc = "done"
    /\ {"temperature", "transforms"} \subseteq DOMAIN ereq[1].request_body
    /\ "tools" \notin DOMAIN ereq[1].request_body
    /\ "stream" \notin DOMAIN ereq[1].request_body
    /\ ereq[1].vllm_payload["temperature"] = "v2"

\* C27: the first request of a turn carries the web_search schema exactly
\* when the turn is online and the provider is not the internal emulator,
\* and with the internal emulator no request of the turn carries it.
C27_ToolsOnlineAndExternalOnly ==
    /\ Len(calls) >= 1 => (calls[1].tools <=> (~offline_mode /\ ~internal))
    /\ internal => \A i \in 1..Len(calls) : ~calls[i].tools

C27_Witness ==
    /\ internal /\ ~offline_mode
    /\ Len(calls) = 1 /\ calls[1].resp = "ok"
    /\ pc = "done" /\ full_response # << >>

\* the tasks that have their model id
Resolved == { t \in Tasks : task[t].pc \in {"close", "done"} }

\* C24: as long as the cache was not invalidated and no discovery failed,
\* at most one discovery request was sent, exactly one once a task has
\* resolved the emulator's model, every such task has the same id, the one
\* in the cache; and at no time are two discovery requests in flight.
C24_OneDiscoveryForAll ==
    /\ Cardinality({ t \in Tasks : task[t].pc \in {"get", "close"} }) <= 1
    /\ ~discovery.failed => discovery.gets <= 1
    /\ (switches = 0 /\ ~discovery.failed /\ IsInternalLlm(llm_base_url))
          => \A t \in Resolved :
                /\ discovery.gets = 1
                /\ task[t].result = emulator_model_cache
                /\ task[t].result = Discovered(0)

C24_Witness ==
    /\ switches = 0 /\ ~discovery.failed
    /\ \A t \in Tasks : task[t].pc = "done"
    /\ Cardinality({ t \in Tasks : task[t].waited }) >= 2
    /\ Cardinality({ t \in Tasks : task[t].result = Discovered(0) }) = MaxTasks
    /\ discovery.gets = 1

\* C25: a task that started after a provider switch was completed does not
\* go on with a model id whose discovery request was sent before that
\* switch.
C25_NoIdFromBeforeSwitch ==
    \A t \in Resolved :
        Len(task[t].result) = 2 => task[t].result[2] >= task[t].started

\* C26: a request whose last message does not start with a skill prefix is
\* served by generate_chat_openrouter, whatever model it names.
C26_AllModelsOneGenerator ==
    \A w \in Workers :
        (worker[w].generator # "" /\ ~worker[w].request.skill)
            => worker[w].generator = "generate_chat_openrouter"

\* C28: every conversation a chat request created had exactly one title
\* task started for it, by that request; a request that carries a
\* conversation_id starts none; and the title of a conversation is written
\* at most once after its creation.
C28_OneTitleTaskPerConversation ==
    /\ \A c \in ConvIds :
          /\ conversations[c].exists => title_log[c].started = 1
          /\ title_log[c].written <= 1
          /\ conversations[c].exists
                => Cardinality({ w \in Workers : /\ title_task[w].pc # "none"
                                                 /\ title_task[w].conv_id = c
                                                 /\ worker[w].request.conversation_id = NoId
                                                 /\ worker[w].conv_id = c }) = 1
    /\ title_log[MissingId].started = 0
    /\ \A w \in Workers :
          (worker[w].pc # "idle" /\ worker[w].request.conversation_id # NoId)
              => title_task[w].pc = "none"

C28_Witness ==
    /\ conversations[1].exists /\ title_log[1].written = 1
    /\ worker[2].request.conversation_id = 1 /\ worker[2].pc = "done"
    /\ TurnMsg("assistant", 2) \in ever_stored[1]
    /\ title_task[1].pc = "done"

\* the messages of a stored conversation change
MessagesChange(c) == conversations'[c].messages # conversations[c].messages

\* the title of a stored conversation changes
TitleChanges(c) == conversations'[c].title # conversations[c].title

\* C29: a write of the title leaves the stored messages as they are, a write
\* of the messages leaves the stored title as it is, and once the title task
\* has written the new title the conversation keeps it, however the two
\* writes interleave.
C29_TitleAndMessagesBothKept ==
    /\ [][\A c \in ConvIds :
             conversations[c].exists
                 => /\ TitleChanges(c) => ~MessagesChange(c)
                    /\ MessagesChange(c) => ~TitleChanges(c)]_vars
    /\ [](\A c \in ConvIds :
             title_log[c].written >= 1 => conversations[c].title = GeneratedTitle)

C29_Witness ==
    /\ title_task[1].raced /\ title_task[1].conv_id = 1
    /\ worker[1].pc = "done" /\ worker[1].conv_id = 1
    /\ conversations[1].title = GeneratedTitle
    /\ conversations[1].messages = << TurnMsg("user", 1), TurnMsg("assistant", 1) >>

\* the messages stored in a conversation
Stored(c) == { conversations[c].messages[i] : i \in 1..Len(conversations[c].messages) }

ReasoningByVendorKeys(line) ==
    IF line.reasoning # <<>> THEN line.reasoning ELSE line.reasoning_content

\* C31: a delta without tool_calls, read before any tool call, that has a
\* non-empty reasoning or reasoning_content field (the first non-empty one
\* wins) is emitted as reasoning inside the think tag and added to the
\* assembled text; a delta with neither key and non-empty content is
\* emitted as content.
C31_ReasoningKeysChecked ==
    [][\A line \in upstream.first :
          (line.kind = "delta" /\ ~line.tc /\ ~is_calling_tool /\ ReadLine(line))
              => LET r == ReasoningByVendorKeys(line) IN
                 IF r # <<>>
                 THEN /\ full_response' = full_response \o ReasoningChunk(full_response, r)
                      /\ out' = Append(out, CopyChunk(line, ReasoningChunk(full_response, r)))
                 ELSE (line.content # <<>> /\ line.thought = <<>>)
                          => /\ full_response'
                                  = full_response \o ContentChunk(full_response, line.content)
                             /\ Len(out') = Len(out) + 1
                             /\ IsChunk(out'[Len(out')])]_vars


\* C32: in the emulator's streaming path every non-empty line of the
\* inference server yields one event: [DONE] for the sentinel, the
\* rewrapped chunk for a JSON chunk, and the line itself for every other
\* line, whether it begins with "data: " or not.
C32_NoLineDropped ==
    [][\A r \in Requests : \A line \in VllmLines :
          (line.kind # "blank" /\ ProxyLine(r, line))
              => /\ Len(ereq'[r].body) = Len(ereq[r].body) + 1
                 /\ SubSeq(ereq'[r].body, 1, Len(ereq[r].body)) = ereq[r].body
                 /\ line.kind \notin {"done", "json"}
                        => ereq'[r].body[Len(ereq'[r].body)].kind = "raw"]_vars


\* the argument chunk a line of the first stream carries
ArgumentChunk(line) == IF line.kind = "delta" /\ line.tc THEN line.args ELSE <<>>

\* C33: the buffered arguments are the concatenation, in arrival order, of
\* the argument chunks of the tool-call fragments of the first stream: the
\* buffer is empty when the stream begins, every line read appends its
\* argument chunk and nothing else changes the buffer within the turn; the
\* buffer is parsed only once the stream has ended, and the search query is
\* what the whole buffer parses to.
C33_ArgumentsConcatenated ==
    /\ [](pc \in {"start", "call"}
              => tool_call_buffer.arguments = <<>> /\ search_query = <<>>)
    /\ [](pc = "stream" => search_query = <<>>)
    /\ [][\A line \in upstream.first :
             ReadLine(line)
                 => tool_call_buffer'.arguments
                        = tool_call_buffer.arguments \o ArgumentChunk(line)]_vars
    /\ [][((\A line \in upstream.first : ~ReadLine(line)) /\ turn' = turn)
             => tool_call_buffer' = tool_call_buffer]_vars
    /\ [][search_query' # search_query
             => /\ pc = "tool" /\ pc' = "search"
                /\ tool_call_buffer' = tool_call_buffer
                /\ search_query' = ParseQuery(tool_call_buffer.arguments)]_vars

\* the arguments arrived in two fragments, none of which named web_search
\* by itself, and were parsed after the stream
C33_Witness ==
    /\ pc = "search"
    /\ ~up.named_web_search
    /\ tool_call_buffer.arguments = ArgsDoc
    /\ search_query = <<"x">>


\* C34: a failed discovery returns the fallback id and leaves the cache
\* empty; a call that then finds the cache empty sends the discovery
\* request again, at once or after waiting for the lock; the cache never
\* holds the fallback id.
C34_FailedDiscoveryNotCached ==
    /\ [](emulator_model_cache # Fallback)
    /\ [][\A t \in Tasks :
             DiscoveryResponse(t, FALSE)
                 => /\ task'[t].result = Fallback
                    /\ emulator_model_cache = None
                    /\ emulator_model_cache' = None]_vars
    /\ [][\A t \in Tasks :
             (/\ discovery.failed /\ emulator_model_cache = None
              /\ IsInternalLlm(llm_base_url)
              /\ ResolveEmulatorModel(t) \/ AcquireLock(t))
                 => \/ task'[t].pc = "get" /\ discovery'.gets = discovery.gets + 1
                    \/ task[t].pc = "idle" /\ task'[t].pc = "wait_lock"]_vars

\* a discovery failed, its caller got the fallback id, and the next caller
\* has sent the discovery request again
C34_Witness ==
    \E t, u \in Tasks :
        /\ task[t].pc = "done" /\ task[t].result = Fallback
        /\ task[u].pc = "get" /\ task[u].started = task[t].started
        /\ discovery.failed /\ discovery.gets = 2
        /\ emulator_model_cache = None
        /\ IsInternalLlm(llm_base_url)


\* C35: every tool-call delta of the first stream sets the tool-requested
\* flag, the flag is not reset within the turn, and a content or reasoning
\* delta read while the flag is set yields nothing and leaves the assembled
\* text as it was.
C35_TextAfterToolCallIgnored ==
    /\ [][\A line \in upstream.first :
             (ReadLine(line) /\ line.kind = "delta" /\ line.tc) => is_calling_tool']_vars
    /\ [][(is_calling_tool /\ turn' = turn) => is_calling_tool']_vars
    /\ [][\A line \in upstream.first :
             (is_calling_tool /\ ReadLine(line) /\ line.kind = "delta" /\ ~line.tc)
                 => out' = out /\ full_response' = full_response]_vars

\* two lines were read, one of them the fragment of a tool call, the other
\* a delta with text, and nothing was forwarded or assembled
C35_Witness ==
    /\ pc = "stream" /\ nread = 2 /\ ~up.ended
    /\ is_calling_tool
    /\ tool_call_buffer = [id |-> <<"id2">>, name |-> <<"other">>, arguments |-> <<"junk">>]
    /\ full_response = <<>> /\ out = <<>>


\* the turn completed, without error event, and stored an assistant message
CompletedAndStored ==
    /\ Finished /\ outcome = "complete" /\ Persisted
    /\ \A i \in 1..Len(out) : ~IsError(out[i])

\* the corrective chunk of post-stream enforcement
IsCorrective(e) == e.kind = "own" /\ ~IsMarker(e)

\* the text of the chunks that stem from upstream chunks
ForwardedText == Concat(SelectSeq(out, LAMBDA e : e.kind \in {"raw", "copy"}))

\* C36 as stated: for every turn that completes without an error event the
\* stored assistant text is the concatenation, in emission order, of the
\* content of all chunks of the outward stream.
C36_StoredIsEmitted ==
    CompletedAndStored => PersistedText = EmittedText

\* C36 amended: for every turn that completes without an error event the
\* stored assistant text is the content of the corrective chunk when
\* post-stream enforcement emitted one, which is then the last chunk of the
\* stream, and otherwise the concatenation, in emission order, of the
\* content of the chunks forwarded from the upstream streams, the search
\* progress marker left out.
C36_StoredIsForwardedOrCorrective ==
    CompletedAndStored
        => IF \E i \in 1..Len(out) : IsCorrective(out[i])
           THEN /\ IsCorrective(out[Len(out)])
                /\ \A i \in 1..(Len(out) - 1) : ~IsCorrective(out[i]) /\ ~IsMarker(out[i])
                /\ PersistedText = out[Len(out)].content
           ELSE PersistedText = ForwardedText

\* a completed tool turn with text before and after the marker
C36_Witness ==
    /\ CompletedAndStored
    /\ \E i, j, k \in 1..Len(out) :
          /\ i < j /\ j < k
          /\ out[i].pass = 1 /\ IsMarker(out[j]) /\ out[k].pass = 2
    /\ PersistedText = ForwardedText
    /\ PersistedText # EmittedText

\* a completed turn whose text was replaced by the corrective chunk
C36_WitnessCorrective ==
    /\ CompletedAndStored
    /\ Len(out) >= 2
    /\ IsCorrective(out[Len(out)])
    /\ PersistedText = out[Len(out)].content
    /\ PersistedText # ForwardedText


\* t begins with p
StartsWith(t, p) == Len(t) >= Len(p) /\ SubSeq(t, 1, Len(p)) = p

\* a chunk in front of whose text the encoder put the opening tag
OpenInserted(e) == e.kind = "copy" /\ StartsWith(e.content, OpenPrefix)

\* a chunk in front of whose text the encoder put the closing tag
CloseInserted(e) == e.kind = "copy" /\ StartsWith(e.content, ClosePrefix)

\* C37: within a turn the encoder puts at most one opening tag and at most
\* one closing tag of its own into the stream, the opening one before the
\* closing one; the opening tag is put in front of a reasoning delta only,
\* the closing tag in front of a content delta only, and only when the
\* assembled text holds an opening tag and no closing tag.
C37_TagsInsertedOnce ==
    /\ [](/\ Cardinality({ i \in 1..Len(out) : OpenInserted(out[i]) }) <= 1
          /\ Cardinality({ i \in 1..Len(out) : CloseInserted(out[i]) }) <= 1
          /\ \A i, j \in 1..Len(out) :
                (OpenInserted(out[i]) /\ CloseInserted(out[j])) => i < j)
    /\ [][\A line \in upstream.first :
             (ReadLine(line) /\ Len(out') > Len(out) /\ OpenInserted(out'[Len(out')]))
                 => /\ line.kind = "delta" /\ ReasoningOf(line) # <<>>
                    /\ ~Contains(full_response, "OPEN")]_vars
    /\ [][\A line \in upstream.first :
             (ReadLine(line) /\ Len(out') > Len(out) /\ CloseInserted(out'[Len(out')]))
                 => /\ line.kind = "delta" /\ ReasoningOf(line) = <<>>
                    /\ line.content # <<>>
                    /\ Contains(full_response, "OPEN")
                    /\ ~Contains(full_response, "CLOSE")]_vars
    /\ [][(\A line \in upstream.first : ~ReadLine(line))
             => \A i \in 1..Len(out') :
                   (OpenInserted(out'[i]) \/ CloseInserted(out'[i]))
                       => i <= Len(out) /\ out[i] = out'[i]]_vars

\* reasoning, content and reasoning again: the opening tag before the first
\* chunk, the closing tag before the second, none before the third
C37_Witness ==
    /\ Len(out) = 3
    /\ OpenInserted(out[1])
    /\ CloseInserted(out[2])
    /\ out[3].kind = "copy" /\ ~OpenInserted(out[3]) /\ ~CloseInserted(out[3])


\* C38: once the sentinel data: [DONE] has been read in the first stream,
\* no later line of that stream yields an outward event or changes the
\* assembled text or the tool-call buffer.
C38_DoneIsTerminal ==
    [][\A line \in upstream.first :
          (up.ended /\ ReadLine(line))
              => /\ out' = out
                 /\ full_response' = full_response
                 /\ tool_call_buffer' = tool_call_buffer]_vars


\* the function.name a line of the first stream carries in tool_calls[0]
NameChunk(line) == IF line.kind = "delta" /\ line.tc THEN line.name ELSE <<>>

\* the flag tells that a tool-call delta arrived and the buffered name is
\* the concatenation, in arrival order, of the names of the tool-call deltas
NameIsConcatenation ==
    /\ [](pc \in {"start", "call"} => ~is_calling_tool /\ tool_call_buffer.name = <<>>)
    /\ [][\A line \in upstream.first :
             ReadLine(line)
                 => /\ tool_call_buffer'.name = tool_call_buffer.name \o NameChunk(line)
                    /\ is_calling_tool'
                           = (is_calling_tool \/ (line.kind = "delta" /\ line.tc))]_vars
    /\ [][((\A line \in upstream.first : ~ReadLine(line)) /\ turn' = turn)
             => /\ tool_call_buffer'.name = tool_call_buffer.name
                /\ is_calling_tool' = is_calling_tool]_vars

\* the tool round trip took place: marker, search and follow-up request
RoundTrip ==
    /\ \E i \in 1..Len(out) : IsMarker(out[i])
    /\ \E i \in 1..Len(messages) : messages[i].role = "tool"
    /\ CountCalls("followup") = 1

\* no part of the tool round trip took place
NoRoundTrip ==
    /\ \A i \in 1..Len(out) : ~IsMarker(out[i])
    /\ \A i \in 1..Len(messages) : messages[i].role # "tool"
    /\ CountCalls("followup") = 0

\* C39 as stated: a turn makes the tool round trip if and only if a
\* tool-call delta arrived and the names of tool_calls[0] of the tool-call
\* deltas, concatenated in arrival order, are web_search.
C39_RoundTripIffWebSearch ==
    /\ NameIsConcatenation
    /\ [](Finished
             => IF is_calling_tool /\ tool_call_buffer.name = WebSearch
                THEN RoundTrip ELSE NoRoundTrip)

\* C39 amended: a turn makes the tool round trip if and only if the first
\* stream ended without an exception, a tool-call delta arrived in it and
\* the names of tool_calls[0] of its tool-call deltas, concatenated in
\* arrival order, are web_search.
C39_RoundTripIffWebSearchAtEnd ==
    /\ NameIsConcatenation
    /\ [](Finished
             => IF /\ is_calling_tool /\ tool_call_buffer.name = WebSearch
                   /\ outcome # "exception"
                THEN RoundTrip ELSE NoRoundTrip)

\* the name arrived in two fragments and the round trip was made
C39_Witness ==
    /\ Finished /\ outcome = "complete"
    /\ ~up.named_web_search
    /\ is_calling_tool /\ tool_call_buffer.name = WebSearch
    /\ RoundTrip

\* the name was buffered, the stream broke, no round trip was made
C39_WitnessBroken ==
    /\ Finished /\ outcome = "exception"
    /\ is_calling_tool /\ tool_call_buffer.name = WebSearch
    /\ NoRoundTrip


\* request r differs from request f in the tools key and the messages only
SamePayloadButToolsAndMessages(f, r) ==
    /\ f.tools /\ ~r.tools
    /\ r.model = f.model
    /\ r.temperature = f.temperature
    /\ r.max_tokens = f.max_tokens
    /\ Len(r.messages) = Len(f.messages)
    /\ \A k \in 1..(Len(f.messages) - 1) : r.messages[k] = f.messages[k]

\* the last message of r is the last message of f with the notice appended
NoticeAppended(f, r) ==
    LET n == Len(f.messages) IN
    /\ n >= 1
    /\ r.messages[n].role = f.messages[n].role
    /\ r.messages[n].content = f.messages[n].content \o ToolFailMsg
    /\ ~Contains(f.messages[n].content, "NOTICE")

\* the stored conversation holds the messages the client sent, and the
\* notice nowhere
StoredWithoutNotice ==
    /\ Len(db.messages) >= Len(request.messages)
    /\ \A k \in 1..Len(request.messages) : db.messages[k] = request.messages[k]
    /\ \A k \in 1..Len(db.messages) : ~Contains(db.messages[k].content, "NOTICE")

\* C40 as stated: the retry request differs from the first request only in
\* that the tools key is removed and the notice is appended once to the
\* last user message; the notice is never written to the stored
\* conversation, whose messages keep the text the client sent.
C40_RetryDropsToolsAddsNotice ==
    /\ StoredWithoutNotice
    /\ \A i \in 1..Len(calls) :
          calls[i].kind = "retry"
              => /\ i = 2
                 /\ SamePayloadButToolsAndMessages(calls[1], calls[2])
                 /\ NoticeAppended(calls[1], calls[2])
                 /\ calls[2].messages[Len(calls[2].messages)].role = "user"

\* C40 amended: the retry request differs from the first request only in
\* that the tools key is removed and, when the last message of the request
\* is a user message, the notice is appended once to that message; when the
\* last message has another role the messages are those of the first
\* request.  The notice is never written to the stored conversation, whose
\* messages keep the text the client sent.
C40_RetryDropsToolsAddsNoticeToLastIfUser ==
    /\ StoredWithoutNotice
    /\ \A i \in 1..Len(calls) :
          calls[i].kind = "retry"
              => /\ i = 2
                 /\ SamePayloadButToolsAndMessages(calls[1], calls[2])
                 /\ IF calls[1].messages[Len(calls[1].messages)].role = "user"
                    THEN NoticeAppended(calls[1], calls[2])
                    ELSE calls[2].messages = calls[1].messages

\* a retried turn that completed and stored its answer: the retry request
\* carried the notice, the stored user message does not
C40_Witness ==
    /\ Finished /\ outcome = "complete" /\ Persisted
    /\ Len(calls) >= 2 /\ calls[2].kind = "retry"
    /\ NoticeAppended(calls[1], calls[2])
    /\ StoredWithoutNotice

\* a retried turn whose request ended with an assistant message
C40_WitnessNoUserLast ==
    /\ Finished /\ outcome = "complete"
    /\ Len(calls) >= 2 /\ calls[2].kind = "retry"
    /\ calls[2].messages = calls[1].messages

=============================================================================
